---- MODULE Spec2Model ----
(***************************************************************************)
(* include_assets: build-time packing of assets into a solid archive and   *)
(* run-time loading of the archive, by name (NamedArchive) or by ordinal   *)
(* (AssetEnum / EnumArchive).                                              *)
(*                                                                         *)
(* Bytes are naturals in 0..255, byte strings are sequences of bytes.      *)
(* A fallible call is modelled by a record with an `ok` field; a panic is  *)
(* a record with ok = FALSE and kind = "panic".                            *)
(***************************************************************************)
EXTENDS Integers, Sequences, FiniteSets

VARIABLES
    pc,          \* position of the build/load pipeline
    codec,       \* the codec chosen by the build configuration
    tree,        \* directory tree handed to read_dir (directory builds)
    enumOrder,   \* order in which the file system enumerates directory entries
    links,       \* the "links" option of the build configuration
    presented,   \* how the assets were presented to the second build
    manifest,    \* Vec<(name, data)> handed to prepare_named_archive
    manifest2,   \* the same assets presented in another order
    pkg,         \* result of prepare_named_archive(codec, manifest)
    pkg2,        \* result of prepare_named_archive(codec, manifest2)
    archive,     \* result of NamedArchive::load / AssetEnum::load
    files,       \* Vec<Vec<u8>> handed to prepare_asset_archive
    table,       \* the EnumMap made from the archive by map or try_map
    bundle,      \* the constants of the derived AssetEnum impl
    tampered,    \* whether the compressed data stream was altered after the build
    query,       \* the last lookup made on the loaded archive
    answer       \* and what it returned

vars == <<pc, codec, tree, enumOrder, links, presented, manifest, manifest2, pkg, pkg2, archive,
          files, table, bundle, tampered, query, answer>>

None == [ok |-> FALSE, kind |-> "none"]

---------------------------------------------------------------------------
(* Bounds of the model *)

\* largest number of assets in a manifest / of variants in an asset enum
MaxAssets == 3

---------------------------------------------------------------------------
(* Byte strings *)

Range(s) == {s[i] : i \in 1..Len(s)}

RECURSIVE Concat(_)
Concat(ss) == IF ss = <<>> THEN <<>> ELSE Head(ss) \o Concat(Tail(ss))

RECURSIVE Zeros(_)
Zeros(n) == IF n = 0 THEN <<>> ELSE <<0>> \o Zeros(n - 1)

\* all sequences of exactly n elements of S
SeqsOfLen(S, n) == [1..n -> S]

SeqsUpTo(S, n) == UNION {SeqsOfLen(S, k) : k \in 0..n}

\* lexicographic order on byte strings (Ord for [u8] / str / OsStr)
RECURSIVE BytesLess(_, _)
BytesLess(a, b) ==
    IF b = <<>> THEN FALSE
    ELSE IF a = <<>> THEN TRUE
    ELSE IF Head(a) # Head(b) THEN Head(a) < Head(b)
    ELSE BytesLess(Tail(a), Tail(b))

---------------------------------------------------------------------------
(* u32 arithmetic: common.rs of both crates *)

\* usize::try_into::<u32>() / u32::try_from(usize) succeeds: n <= u32::MAX,
\* written with 16-bit halves so that no literal exceeds the checker's integers
U32Fits(n) == n \div 65536 <= 65535

\* the four bytes of a u32, the most significant first
to_le_bytes_BigEndian(n) ==
    << (n \div 16777216) % 256, (n \div 65536) % 256, (n \div 256) % 256, n % 256 >>

\* u32::to_le_bytes
to_le_bytes(n) ==
    << n % 256, (n \div 256) % 256, (n \div 65536) % 256, (n \div 16777216) % 256 >>

\* u32::from_le_bytes on a chunk of four bytes
from_le_bytes(b) == b[1] + 256 * b[2] + 65536 * b[3] + 16777216 * b[4]

\* u32::checked_add: Some(a + b) or None on overflow
checked_add(a, b) ==
    IF U32Fits(a + b) THEN [some |-> TRUE, val |-> a + b] ELSE [some |-> FALSE]

---------------------------------------------------------------------------
(* Codecs: include_assets_decode/src/codec.rs *)

Uncompressed == [alg |-> "uncompressed"]
Lz4 == [alg |-> "lz4"]
Deflate(level) == [alg |-> "deflate", level |-> level]
Zstd(level) == [alg |-> "zstd", level |-> level]

\* the codecs whose byte streams the model follows
Codecs == {Uncompressed, Lz4}

\* LZ4 block format, length of a literal run: the token's high nibble, and for
\* runs of 15 bytes or more the extension bytes that follow the token
RECURSIVE Lz4LenExt(_)
Lz4LenExt(m) == IF m >= 255 THEN <<255>> \o Lz4LenExt(m - 255) ELSE <<m>>

Lz4Token(n) == IF n < 15 THEN <<16 * n>> ELSE <<240>> \o Lz4LenExt(n - 15)

\* lz4_flex::block::compress of an input too short to hold a match: one
\* sequence, the token followed by the input as literals
Lz4Block(data) == Lz4Token(Len(data)) \o data

\* whether src is such a block holding n literal bytes
IsLz4BlockOf(src, n) ==
    /\ Len(Lz4Token(n)) + n = Len(src)
    /\ SubSeq(src, 1, Len(Lz4Token(n))) = Lz4Token(n)

Lz4Payload(src) ==
    LET n == CHOOSE k \in 0..Len(src) : IsLz4BlockOf(src, k)
    IN  SubSeq(src, Len(src) - n + 1, Len(src))

\* lz4_flex::block::decompress_into(src, dst): the number of bytes written or
\* an error; dst was zero-filled by the caller.  The first sequence of the
\* block is followed as the block format lays it down: the token's literal
\* run is copied, and a block that ends with that run is complete whatever
\* the token's match nibble holds.  A stream that goes on to a match is either
\* rejected or decoded to bytes copied from src: the match copy itself is not
\* followed, every such outcome is possible.
lz4_decompress_into(src, dst) ==
    LET Err == [ok |-> FALSE, err |-> [type |-> "DecompressError"]]
        lit == src[1] \div 16
    IN  IF src = <<>> THEN {Err}
        ELSE IF \E n \in 0..Len(src) : IsLz4BlockOf(src, n)
        THEN IF Len(Lz4Payload(src)) > Len(dst) THEN {Err}
             ELSE {[ok |-> TRUE, n |-> Len(Lz4Payload(src)),
                    dst |-> Lz4Payload(src)
                            \o SubSeq(dst, Len(Lz4Payload(src)) + 1, Len(dst))]}
        ELSE IF lit < 15 /\ lit > Len(src) - 1 THEN {Err}
        ELSE IF lit < 15 /\ lit > Len(dst) THEN {Err}
        ELSE IF lit < 15 /\ lit = Len(src) - 1
        THEN {[ok |-> TRUE, n |-> lit,
               dst |-> SubSeq(src, 2, Len(src)) \o SubSeq(dst, lit + 1, Len(dst))]}
        ELSE IF lit < 15 /\ (Len(src) - 1 - lit < 2 \/ lit + 4 > Len(dst)) THEN {Err}
        ELSE {Err} \cup {[ok |-> TRUE, n |-> Len(dst), dst |-> out] :
                           out \in SeqsOfLen(Range(src) \cup {0}, Len(dst))}

\* yazi's raw DEFLATE stream and zstd's frame, taken as lossless encodings:
\* a symbol that is no byte stands for the format, a second one for the
\* choices the encoder makes at the given level, and the bytes follow
DeflateMark == 257
ZstdMark == 258
Frame(mark, level, data) == <<mark, 256 + (level % 256)>> \o data
IsFrame(mark, src) == Len(src) >= 2 /\ src[1] = mark /\ src[2] >= 256
Payload(src) == SubSeq(src, 3, Len(src))

\* yazi::compress(data, Format::Raw, CompressionLevel::Specific(level))
yazi_compress(data, level) == [ok |-> TRUE, val |-> Frame(DeflateMark, level, data)]

\* zstd::bulk::compress(data, level)
zstd_compress(data, level) == [ok |-> TRUE, val |-> Frame(ZstdMark, level, data)]

\* Deflate::decompress_checked: the decoder streams into dst and fails when
\* dst is too small or the stream is broken; a dst that was not filled is
\* an Underflow
deflate_decompress_checked(src, dst) ==
    IF ~IsFrame(DeflateMark, src)
    THEN [ok |-> FALSE, err |-> [type |-> "YaziError", error |-> "InvalidBitstream"]]
    ELSE IF Len(Payload(src)) > Len(dst)
    THEN [ok |-> FALSE, err |-> [type |-> "YaziError", error |-> "Overflow"]]
    ELSE IF Len(Payload(src)) # Len(dst)
    THEN [ok |-> FALSE, err |-> [type |-> "YaziError", error |-> "Underflow"]]
    ELSE [ok |-> TRUE, dst |-> Payload(src)]

\* Zstd::decompress_checked: zstd::bulk::decompress_to_buffer, then the
\* comparison of the decompressed size with dst.len()
zstd_decompress_checked(src, dst) ==
    IF ~IsFrame(ZstdMark, src) \/ Len(Payload(src)) > Len(dst)
    THEN [ok |-> FALSE, err |-> [type |-> "io::Error"]]
    ELSE IF Len(Payload(src)) # Len(dst)
    THEN [ok |-> FALSE,
          err |-> [type |-> "UncompressedSizeMismatch",
                   expected |-> Len(dst), actual |-> Len(Payload(src))]]
    ELSE [ok |-> TRUE, dst |-> Payload(src)]

\* Codec::compress
compress(c, data) ==
    IF c.alg = "uncompressed"
    THEN [ok |-> TRUE, val |-> data]
    ELSE IF c.alg = "deflate" THEN yazi_compress(data, c.level)
    ELSE IF c.alg = "zstd" THEN zstd_compress(data, c.level)
    ELSE [ok |-> TRUE, val |-> Lz4Block(data)]

\* decompress_checked whose size mismatch names the lengths the other way round
decompress_checked_Swapped(c, src, dst) ==
    IF c.alg = "uncompressed"
    THEN IF Len(dst) = Len(src)
         THEN {[ok |-> TRUE, dst |-> src]}
         ELSE {[ok |-> FALSE,
                err |-> [type |-> "UncompressedSizeMismatch",
                         expected |-> Len(src), actual |-> Len(dst)]]}
    ELSE IF c.alg = "deflate" THEN {deflate_decompress_checked(src, dst)}
    ELSE IF c.alg = "zstd" THEN {zstd_decompress_checked(src, dst)}
    ELSE {IF r.ok /\ r.n = Len(dst)
          THEN [ok |-> TRUE, dst |-> r.dst]
          ELSE [ok |-> FALSE, err |-> [type |-> "DecompressError"]] :
            r \in lz4_decompress_into(src, dst)}

\* Codec::decompress_checked(src, dst): the set of possible outcomes, each the
\* error or the new contents of dst
decompress_checked(c, src, dst) ==
    IF c.alg = "uncompressed"
    THEN IF Len(dst) = Len(src)
         THEN {[ok |-> TRUE, dst |-> src]}
         ELSE {[ok |-> FALSE,
                err |-> [type |-> "UncompressedSizeMismatch",
                         expected |-> Len(dst), actual |-> Len(src)]]}
    ELSE IF c.alg = "deflate" THEN {deflate_decompress_checked(src, dst)}
    ELSE IF c.alg = "zstd" THEN {zstd_decompress_checked(src, dst)}
    ELSE {IF r.ok /\ r.n = Len(dst)
          THEN [ok |-> TRUE, dst |-> r.dst]
          ELSE [ok |-> FALSE, err |-> [type |-> "DecompressError"]] :
            r \in lz4_decompress_into(src, dst)}

\* Codec::decompress: like decompress_checked, but panics on error
decompress(c, src, dst) ==
    {IF r.ok THEN r
     ELSE [ok |-> FALSE, kind |-> "panic",
           msg |-> "decompression should succeed", err |-> r.err] :
       r \in decompress_checked(c, src, dst)}

\* Codec::decompress_with_length: a new vector of the given length
decompress_with_length(c, src, len) ==
    {IF r.ok THEN [ok |-> TRUE, val |-> r.dst] ELSE r :
       r \in decompress(c, src, Zeros(len))}

---------------------------------------------------------------------------
(* Checksums: include_assets_decode/src/checksum.rs *)

\* blake2::Blake2b512::digest, taken as collision free: the digest stands for
\* the bytes it was computed from
compute_checksum(data) == [blake2b512 |-> data]

\* <Checksum as AsRef<[u8]>>::as_ref: the 64 bytes of a digest.  No asset of
\* the model is as long, so they are written as 256, which is no byte,
\* followed by the bytes that were digested.
as_ref(checksum) == <<256>> \o checksum.blake2b512

\* check that accepts every digest
check_AlwaysOk(data, expected) == [ok |-> TRUE]

\* check(data, expected)
check(data, expected) ==
    LET actual == compute_checksum(data)
    IN  IF actual # expected
        THEN [ok |-> FALSE,
              err |-> [type |-> "Mismatch", expected |-> expected, actual |-> actual]]
        ELSE [ok |-> TRUE]

\* Display for Mismatch
MismatchDisplay(m) ==
    <<"Checksum mismatch: expected ", m.expected, ", got ", m.actual>>

---------------------------------------------------------------------------
(* Builder helpers: include_assets_encode/src/common.rs *)

\* indices of a sequence whose element satisfies a test, smallest first
FirstIndex(S) == CHOOSE i \in S : \A j \in S : i <= j

\* the names each followed by a null byte
RECURSIVE JoinNames_Terminated(_)
JoinNames_Terminated(names) ==
    IF names = <<>> THEN <<>>
    ELSE Head(names) \o <<0>> \o JoinNames_Terminated(Tail(names))

\* the names joined by single null bytes, as compress_names accumulates them
RECURSIVE JoinNames(_)
JoinNames(names) ==
    IF names = <<>> THEN <<>>
    ELSE IF Len(names) = 1 THEN names[1]
    ELSE JoinNames(SubSeq(names, 1, Len(names) - 1)) \o <<0>> \o names[Len(names)]

\* compress_names without the assertion on null bytes
compress_names_Unchecked(c, names) ==
    LET uncompressed_names == JoinNames(names)
        compressed == compress(c, uncompressed_names)
    IN  IF ~U32Fits(Len(uncompressed_names))
        THEN [ok |-> FALSE, kind |-> "err",
              msg |-> "uncompressed names are too long",
              bytes |-> Len(uncompressed_names)]
        ELSE IF ~compressed.ok
        THEN [ok |-> FALSE, kind |-> "err", msg |-> "couldn't compress asset names"]
        ELSE [ok |-> TRUE, compressed_names |-> compressed.val,
              uncompressed_size |-> Len(uncompressed_names)]

\* compress_names(codec, names) -> Result<(Vec<u8>, u32)>
compress_names(c, names) ==
    LET bad == {i \in 1..Len(names) : 0 \in Range(names[i])}
        uncompressed_names == JoinNames(names)
        compressed == compress(c, uncompressed_names)
    IN  IF bad # {}
        THEN [ok |-> FALSE, kind |-> "panic",
              msg |-> "assertion failed: !name.as_ref().as_bytes().contains(&0)"]
        ELSE IF ~U32Fits(Len(uncompressed_names))
        THEN [ok |-> FALSE, kind |-> "err",
              msg |-> "uncompressed names are too long",
              bytes |-> Len(uncompressed_names)]
        ELSE IF ~compressed.ok
        THEN [ok |-> FALSE, kind |-> "err", msg |-> "couldn't compress asset names"]
        ELSE [ok |-> TRUE, compressed_names |-> compressed.val,
              uncompressed_size |-> Len(uncompressed_names)]

\* compress_sizes(codec, sizes) -> Result<Vec<u8>>, sizes a sequence of (name, size)
compress_sizes(c, sizes) ==
    LET big == {i \in 1..Len(sizes) : ~U32Fits(sizes[i].size)}
        sizes_vec == Concat([i \in 1..Len(sizes) |-> to_le_bytes(sizes[i].size)])
        compressed == compress(c, sizes_vec)
    IN  IF big # {}
        THEN [ok |-> FALSE, kind |-> "err", msg |-> "asset is too big",
              name |-> sizes[FirstIndex(big)].name,
              bytes |-> sizes[FirstIndex(big)].size]
        ELSE IF ~U32Fits(Len(sizes_vec))
        THEN [ok |-> FALSE, kind |-> "err",
              msg |-> "too many assets: size of uncompressed asset sizes is too big",
              bytes |-> Len(sizes_vec)]
        ELSE IF ~compressed.ok
        THEN [ok |-> FALSE, kind |-> "err", msg |-> "couldn't compress asset data sizes"]
        ELSE [ok |-> TRUE, val |-> compressed.val]

\* checksums_tokens(asset_data): the checksum array literal
checksums_tokens(asset_data) ==
    [i \in 1..Len(asset_data) |-> compute_checksum(asset_data[i])]

---------------------------------------------------------------------------
(* Named builder: include_assets_encode/src/named.rs *)

\* prepare_named_archive(codec, assets) -> Result<NamedArchive>, assets a
\* sequence of [name, data]
prepare_named_archive(c, assets) ==
    LET n == Len(assets)
        dup == {i \in 1..n : \E j \in 1..(i - 1) : assets[j].name = assets[i].name}
        names == compress_names(c, [i \in 1..n |-> assets[i].name])
        sizes == compress_sizes(c, [i \in 1..n |->
                     [name |-> assets[i].name, size |-> Len(assets[i].data)]])
        checksums == [i \in 1..n |-> compute_checksum(assets[i].data)]
        uncompressed_data == Concat([i \in 1..n |-> assets[i].data])
        compressed_data == compress(c, uncompressed_data)
    IN  IF dup # {}
        THEN [ok |-> FALSE, kind |-> "panic", msg |-> "duplicate asset name",
              name |-> assets[FirstIndex(dup)].name]
        ELSE IF ~names.ok THEN names
        ELSE IF ~sizes.ok THEN sizes
        ELSE IF ~compressed_data.ok
        THEN [ok |-> FALSE, kind |-> "err", msg |-> "couldn't compress asset data"]
        ELSE IF ~U32Fits(Len(uncompressed_data))
        THEN [ok |-> FALSE, kind |-> "err", msg |-> "too much data",
              bytes |-> Len(uncompressed_data)]
        ELSE [ok |-> TRUE,
              compressed_data |-> compressed_data.val,
              uncompressed_data_size |-> Len(uncompressed_data),
              compressed_names |-> names.compressed_names,
              uncompressed_names_size |-> names.uncompressed_size,
              compressed_sizes |-> sizes.val,
              checksums |-> checksums]

\* the CompressedNamedArchive expression include_dir! emits for a built
\* archive; its checksums are checksums_tokens(checksums.into_iter()), the
\* items handed to checksums_tokens being the checksums of the built archive
CompressedNamedArchive(c, built) ==
    [codec |-> c,
     data |-> built.compressed_data,
     uncompressed_data_size |-> built.uncompressed_data_size,
     compressed_names |-> built.compressed_names,
     uncompressed_names_size |-> built.uncompressed_names_size,
     checksums |-> checksums_tokens([i \in 1..Len(built.checksums) |->
                                        as_ref(built.checksums[i])]),
     compressed_sizes |-> built.compressed_sizes]

---------------------------------------------------------------------------
(* Loader helpers: include_assets_decode/src/common.rs *)

\* <[u8]>::split(|b| *b == 0): the pieces between null bytes; an empty slice
\* yields one empty piece
RECURSIVE SplitOnNull(_)
SplitOnNull(s) ==
    IF 0 \notin Range(s) THEN <<s>>
    ELSE LET i == FirstIndex({k \in 1..Len(s) : s[k] = 0})
         IN  <<SubSeq(s, 1, i - 1)>> \o SplitOnNull(SubSeq(s, i + 1, Len(s)))

\* std::str::from_utf8(bytes).is_ok()
RECURSIVE IsUtf8(_)
IsUtf8(s) ==
    IF s = <<>> THEN TRUE
    ELSE LET b == s[1]
             Cont(k) == Len(s) >= k /\ s[k] \in 128..191
             Rest(k) == IsUtf8(SubSeq(s, k + 1, Len(s)))
         IN  IF b < 128 THEN Rest(1)
             ELSE IF b \in 194..223 THEN Cont(2) /\ Rest(2)
             ELSE IF b \in 224..239
             THEN /\ Cont(2) /\ Cont(3)
                  /\ (b = 224 => s[2] >= 160)
                  /\ (b = 237 => s[2] <= 159)
                  /\ Rest(3)
             ELSE IF b \in 240..244
             THEN /\ Cont(2) /\ Cont(3) /\ Cont(4)
                  /\ (b = 240 => s[2] >= 144)
                  /\ (b = 244 => s[2] <= 143)
                  /\ Rest(4)
             ELSE FALSE

\* decompress_names(codec, compressed_names_with_null_delimiters, decompressed_len)
decompress_names(c, compressed_names_with_null_delimiters, decompressed_len) ==
    {IF ~d.ok THEN d
     ELSE LET names == SplitOnNull(d.val)
          IN  IF \E i \in 1..Len(names) : ~IsUtf8(names[i])
              THEN [ok |-> FALSE, kind |-> "panic", msg |-> "names should be UTF-8"]
              ELSE [ok |-> TRUE, val |-> names] :
       d \in decompress_with_length(c, compressed_names_with_null_delimiters,
                                    decompressed_len)}

\* the loop of decompress_ranges with every range starting where the one
\* before it started
RECURSIVE RangesOfChunks_Overlapping(_, _)
RangesOfChunks_Overlapping(lengths, ranges) ==
    IF ~ranges.ok \/ lengths = <<>> THEN ranges
    ELSE LET len == from_le_bytes(SubSeq(lengths, 1, 4))
             start == IF ranges.val = <<>> THEN 0
                      ELSE ranges.val[Len(ranges.val)].start
             end == checked_add(start, len)
         IN  RangesOfChunks_Overlapping(
                 SubSeq(lengths, 5, Len(lengths)),
                 IF end.some
                 THEN [ok |-> TRUE,
                       val |-> Append(ranges.val, [start |-> start, end |-> end.val])]
                 ELSE [ok |-> FALSE, kind |-> "panic", msg |-> "overflow"])

\* the loop of decompress_ranges with every range pushed as 0..end
RECURSIVE RangesOfChunks_ZeroStart(_, _)
RangesOfChunks_ZeroStart(lengths, ranges) ==
    IF ~ranges.ok \/ lengths = <<>> THEN ranges
    ELSE LET len == from_le_bytes(SubSeq(lengths, 1, 4))
             start == IF ranges.val = <<>> THEN 0
                      ELSE ranges.val[Len(ranges.val)].end
             end == checked_add(start, len)
         IN  RangesOfChunks_ZeroStart(
                 SubSeq(lengths, 5, Len(lengths)),
                 IF end.some
                 THEN [ok |-> TRUE,
                       val |-> Append(ranges.val, [start |-> 0, end |-> end.val])]
                 ELSE [ok |-> FALSE, kind |-> "panic", msg |-> "overflow"])

\* the loop of decompress_ranges over the 4-byte chunks of the decompressed
\* lengths: the ranges pushed so far, or the overflow panic
RECURSIVE RangesOfChunks(_, _)
RangesOfChunks(lengths, ranges) ==
    IF ~ranges.ok \/ lengths = <<>> THEN ranges
    ELSE LET len == from_le_bytes(SubSeq(lengths, 1, 4))
             start == IF ranges.val = <<>> THEN 0
                      ELSE ranges.val[Len(ranges.val)].end
             end == checked_add(start, len)
         IN  RangesOfChunks(
                 SubSeq(lengths, 5, Len(lengths)),
                 IF end.some
                 THEN [ok |-> TRUE,
                       val |-> Append(ranges.val, [start |-> start, end |-> end.val])]
                 ELSE [ok |-> FALSE, kind |-> "panic",
                       msg |-> "overflow should have been caught during construction at compile time"])

\* decompress_ranges(codec, compressed_lengths, number_of_entries)
decompress_ranges(c, compressed_lengths, number_of_entries) ==
    LET decompressed_len == number_of_entries * 4
    IN  {IF ~d.ok THEN d ELSE RangesOfChunks(d.val, [ok |-> TRUE, val |-> <<>>]) :
           d \in decompress_with_length(c, compressed_lengths, decompressed_len)}

\* &data[u32_to_usize_range(range)]
Slice(data, range) == SubSeq(data, range.start + 1, range.end)

---------------------------------------------------------------------------
(* Named loader: include_assets_decode/src/named.rs *)

\* names.into_iter().zip(ranges.into_iter()).collect::<HashMap>(): a later
\* entry replaces an earlier one of the same name
ZipToMap(names, ranges) ==
    LET n == IF Len(names) < Len(ranges) THEN Len(names) ELSE Len(ranges)
        Last(name) == CHOOSE i \in 1..n :
                          /\ names[i] = name
                          /\ \A j \in 1..n : names[j] = name => j <= i
    IN  [name \in {names[i] : i \in 1..n} |-> ranges[Last(name)]]

\* the table construction of NamedArchive::load without its two assertions
NamedArchiveOf_Unchecked(data, names, ranges, uncompressed_data_size) ==
    [ok |-> TRUE, data |-> data, ranges |-> ZipToMap(names, ranges),
     names_vec |-> names, ranges_vec |-> ranges]

\* the table construction of NamedArchive::load with the assertion on the
\* numbers of names and ranges only
NamedArchiveOf_AnyFinalEnd(data, names, ranges, uncompressed_data_size) ==
    IF Len(names) # Len(ranges)
    THEN [ok |-> FALSE, kind |-> "panic",
          msg |-> "number of asset names should equal number of asset data ranges"]
    ELSE [ok |-> TRUE, data |-> data, ranges |-> ZipToMap(names, ranges),
          names_vec |-> names, ranges_vec |-> ranges]

\* the checks and the table construction of NamedArchive::load once the
\* three streams are decompressed; names and ranges are load's vectors in
\* package order, kept beside the archive's own two fields (data, ranges)
NamedArchiveOf(data, names, ranges, uncompressed_data_size) ==
    IF Len(names) # Len(ranges)
    THEN [ok |-> FALSE, kind |-> "panic",
          msg |-> "number of asset names should equal number of asset data ranges"]
    ELSE IF (IF ranges = <<>> THEN 0 ELSE ranges[Len(ranges)].end)
             # uncompressed_data_size
    THEN [ok |-> FALSE, kind |-> "panic", msg |-> "the final range should end where the data ends"]
    ELSE [ok |-> TRUE, data |-> data, ranges |-> ZipToMap(names, ranges),
          names_vec |-> names, ranges_vec |-> ranges]

\* NamedArchive::load that compares every asset with its checksum
NamedArchive_load_Checking(compressed) ==
    UNION {
      IF ~d.ok THEN {d}
      ELSE UNION {
        IF ~n.ok THEN {n}
        ELSE {IF ~r.ok THEN r
              ELSE LET a == NamedArchiveOf(d.val, n.val, r.val,
                                           compressed.uncompressed_data_size)
                   IN  IF a.ok /\ \E i \in 1..Len(r.val) :
                                    ~check(Slice(d.val, r.val[i]),
                                           compressed.checksums[i]).ok
                       THEN [ok |-> FALSE, kind |-> "panic", msg |-> "checksum mismatch"]
                       ELSE a :
                r \in decompress_ranges(compressed.codec, compressed.compressed_sizes,
                                        Len(compressed.checksums))} :
          n \in decompress_names(compressed.codec, compressed.compressed_names,
                                 compressed.uncompressed_names_size)} :
        d \in decompress_with_length(compressed.codec, compressed.data,
                                     compressed.uncompressed_data_size)}

\* NamedArchive::load(compressed): the set of possible outcomes
NamedArchive_load(compressed) ==
    UNION {
      IF ~d.ok THEN {d}
      ELSE UNION {
        IF ~n.ok THEN {n}
        ELSE {IF ~r.ok THEN r
              ELSE NamedArchiveOf(d.val, n.val, r.val,
                                  compressed.uncompressed_data_size) :
                r \in decompress_ranges(compressed.codec, compressed.compressed_sizes,
                                        Len(compressed.checksums))} :
          n \in decompress_names(compressed.codec, compressed.compressed_names,
                                 compressed.uncompressed_names_size)} :
        d \in decompress_with_length(compressed.codec, compressed.data,
                                     compressed.uncompressed_data_size)}

\* get that takes an empty range for an absent asset
NamedArchive_get_EmptyIsNone(a, name) ==
    IF name \in DOMAIN a.ranges /\ a.ranges[name].start < a.ranges[name].end
    THEN [some |-> TRUE, val |-> Slice(a.data, a.ranges[name])]
    ELSE [some |-> FALSE]

\* NamedArchive::get
NamedArchive_get(a, name) ==
    IF name \in DOMAIN a.ranges
    THEN [some |-> TRUE, val |-> Slice(a.data, a.ranges[name])]
    ELSE [some |-> FALSE]

\* NamedArchive::number_of_assets
number_of_assets(a) == Cardinality(DOMAIN a.ranges)

\* NamedArchive::names, as the set the iterator yields
NamedArchive_names(a) == DOMAIN a.ranges

\* an assets iterator that pairs every name with the whole data buffer
NamedArchive_assets_WholeData(a) ==
    {[name |-> name, data |-> a.data] : name \in DOMAIN a.ranges}

\* NamedArchive::assets, as the set of pairs the iterator yields
NamedArchive_assets(a) ==
    {[name |-> name, data |-> Slice(a.data, a.ranges[name])] : name \in DOMAIN a.ranges}

\* NamedArchive::contains
NamedArchive_contains(a, name) == NamedArchive_get(a, name).some

---------------------------------------------------------------------------
(* Inputs *)

\* asset names: "a", "b", "a/b", the empty name, and a name holding a null byte
Names == { <<97>>, <<98>>, <<97, 47, 98>>, <<>>, <<97, 0>> }

\* asset contents, of lengths 0, 1 and 2
Contents == { <<>>, <<1>>, <<2, 1>> }

Assets == [name : Names, data : Contents]

Manifests == SeqsUpTo(Assets, MaxAssets)

\* the manifests prepare_named_archive accepts: unique names without null bytes
ValidManifest(m) ==
    /\ \A i, j \in 1..Len(m) : m[i].name = m[j].name => i = j
    /\ \A i \in 1..Len(m) : 0 \notin Range(m[i].name)

---------------------------------------------------------------------------
(* Building and loading a named archive from a manifest *)

Init ==
    /\ pc = "start"
    /\ codec \in Codecs
    /\ manifest \in Manifests
    /\ manifest2 = <<>>
    /\ tree = None
    /\ enumOrder = <<>>
    /\ links = [some |-> FALSE]
    /\ presented = None
    /\ pkg = None
    /\ pkg2 = None
    /\ archive = None
    /\ files = <<>>
    /\ table = None
    /\ bundle = None
    /\ tampered = "no"
    /\ query = None
    /\ answer = None

\* include_dir!: the build step, prepare_named_archive on the manifest
Build ==
    /\ pc = "start"
    /\ pkg' = prepare_named_archive(codec, manifest)
    /\ pc' = IF pkg'.ok THEN "built" ELSE "build_failed"
    /\ UNCHANGED <<codec, tree, enumOrder, links, presented, manifest, manifest2, pkg2, archive,
                   files, table, bundle, tampered, query, answer>>

\* NamedArchive::load(include_dir!(..)) at run time
Load ==
    /\ pc = "built"
    /\ \E r \in NamedArchive_load(CompressedNamedArchive(codec, pkg)) :
         /\ archive' = r
         /\ pc' = IF r.ok THEN "loaded" ELSE "load_failed"
    /\ UNCHANGED <<codec, tree, enumOrder, links, presented, manifest, manifest2, pkg, pkg2,
                   files, table, bundle, tampered, query, answer>>

\* archive.get(name)
Get(name) ==
    /\ pc = "loaded"
    /\ query' = [op |-> "get", name |-> name]
    /\ answer' = NamedArchive_get(archive, name)
    /\ UNCHANGED <<pc, codec, tree, enumOrder, links, presented, manifest, manifest2, pkg, pkg2,
                   archive, files, table, bundle, tampered>>

Next ==
    \/ Build
    \/ Load
    \/ \E name \in Names : Get(name)

Spec == Init /\ [][Next]_vars

---------------------------------------------------------------------------
(* Properties of the named pipeline (checked under Spec) *)

Some(bytes) == [some |-> TRUE, val |-> bytes]

\* the manifest was built and the package loaded, whatever the outcome
LoadAttempted == pc \in {"loaded", "load_failed"}

\* C1: named round trip.  For every manifest with unique, null-free names,
\* the empty manifest included, the build succeeds, the load of the built
\* package succeeds, and get(name) returns the original bytes of every asset.
C1_NamedRoundTrip ==
    ValidManifest(manifest) =>
        /\ pc # "build_failed"
        /\ pc # "load_failed"
        /\ pc = "loaded" =>
             \A i \in 1..Len(manifest) :
                 NamedArchive_get(archive, manifest[i].name) = Some(manifest[i].data)
        /\ (pc = "loaded" /\ query # None) =>
             \A i \in 1..Len(manifest) :
                 query.name = manifest[i].name => answer = Some(manifest[i].data)

\* The round trip of C1 restricted to manifests of at least one asset.
C1_NonEmptyRoundTrip == manifest # <<>> => C1_NamedRoundTrip

\* C5: cardinality.  For the package built from a valid manifest of n >= 0
\* assets, the names stream splits into exactly n names, the sizes stream
\* gives exactly n ranges, there are n checksums, and the i-th name, range and
\* checksum belong to the i-th asset.
C5_Cardinality ==
    (ValidManifest(manifest) /\ pc # "start") =>
        /\ pkg.ok
        /\ Len(pkg.checksums) = Len(manifest)
        /\ \A n \in decompress_names(codec, pkg.compressed_names,
                                     pkg.uncompressed_names_size) :
             /\ n.ok
             /\ Len(n.val) = Len(manifest)
             /\ \A i \in 1..Len(manifest) : n.val[i] = manifest[i].name
        /\ \A r \in decompress_ranges(codec, pkg.compressed_sizes, Len(pkg.checksums)) :
             /\ r.ok
             /\ Len(r.val) = Len(manifest)
             /\ \A i \in 1..Len(manifest) :
                  /\ r.val[i].end - r.val[i].start = Len(manifest[i].data)
                  /\ pkg.checksums[i] = compute_checksum(manifest[i].data)

\* C6 as stated: in every loaded named archive the ranges in package order do
\* not overlap, each starts strictly after the start of the one before, the
\* first starts at 0 and the last ends at the declared data size.
C6_RangesStrictlyIncreasing ==
    pc = "loaded" =>
        LET r == archive.ranges_vec
        IN  /\ \A i \in 1..Len(r) : r[i].start <= r[i].end
            /\ \A i \in 2..Len(r) : r[i - 1].end <= r[i].start
            /\ \A i \in 2..Len(r) : r[i - 1].start < r[i].start
            /\ (r # <<>> => r[1].start = 0)
            /\ (r # <<>> => r[Len(r)].end = pkg.uncompressed_data_size)

\* C6 as amended: in every loaded named archive the ranges in package order
\* are contiguous: the first starts at 0, each starts where the one before
\* ends (so the starts never decrease, and increase exactly past a non-empty
\* asset), and the last ends at the declared data size.
C6_RangesContiguous ==
    pc = "loaded" =>
        LET r == archive.ranges_vec
        IN  /\ \A i \in 1..Len(r) : r[i].start <= r[i].end
            /\ \A i \in 2..Len(r) : r[i].start = r[i - 1].end
            /\ \A i \in 2..Len(r) :
                 (r[i - 1].start < r[i].start) <=> (r[i - 1].start < r[i - 1].end)
            /\ (r # <<>> => r[1].start = 0)
            /\ (r # <<>> => r[Len(r)].end = pkg.uncompressed_data_size)
            /\ Len(archive.data) = pkg.uncompressed_data_size

\* a loaded archive whose first asset is empty and is followed by another
C6_Witness ==
    /\ pc = "loaded"
    /\ Len(archive.ranges_vec) >= 2
    /\ archive.ranges_vec[1].start = archive.ranges_vec[1].end
    /\ archive.ranges_vec[2].start < archive.ranges_vec[2].end

\* C7: the empty manifest builds to a package of declared data size 0 with
\* no checksums, and loading that package completes with an archive of no
\* assets.
C7_EmptyManifest ==
    (manifest = <<>> /\ pc # "start") =>
        /\ pkg.ok
        /\ pkg.uncompressed_data_size = 0
        /\ pkg.checksums = <<>>
        /\ pc # "load_failed"
        /\ pc = "loaded" =>
             /\ number_of_assets(archive) = 0
             /\ NamedArchive_names(archive) = {}
             /\ NamedArchive_assets(archive) = {}

\* the single-asset manifests of C8: a non-empty name, empty content
ZeroLengthManifest ==
    /\ Len(manifest) = 1
    /\ manifest[1].name # <<>>
    /\ 0 \notin Range(manifest[1].name)
    /\ manifest[1].data = <<>>

\* C8: a manifest of one asset with a non-empty name and zero-length content
\* builds and loads without error, get(name) is Some(empty slice) and
\* number_of_assets() is 1.
C8_ZeroLengthAsset ==
    ZeroLengthManifest =>
        /\ pc # "build_failed"
        /\ pc # "load_failed"
        /\ pc = "loaded" =>
             /\ NamedArchive_get(archive, manifest[1].name) = Some(<<>>)
             /\ number_of_assets(archive) = 1
        /\ (pc = "loaded" /\ query # None /\ query.name = manifest[1].name) =>
             answer = Some(<<>>)

\* the zero-length asset was built, loaded and looked up
C8_Witness ==
    /\ ZeroLengthManifest
    /\ pc = "loaded"
    /\ query # None
    /\ query.name = manifest[1].name
    /\ answer = Some(<<>>)

---------------------------------------------------------------------------
(* Enum builder: include_assets_encode/src/enums.rs, common.rs, lib.rs *)

\* the end offset taken as the length of the i-th blob alone
EndOffset_BlobLength(data, i) == Len(data[i])

\* the end offset pushed for the i-th blob: the length of the data so far
EndOffset(data, i) == Len(Concat(SubSeq(data, 1, i)))

\* prepare_asset_archive(codec, data), data a sequence of blobs
prepare_asset_archive(c, data) ==
    LET n == Len(data)
        big == {i \in 1..n : ~U32Fits(EndOffset(data, i))}
        compressed_data == compress(c, Concat(data))
    IN  IF big # {}
        THEN [ok |-> FALSE, kind |-> "panic",
              msg |-> "called Result::unwrap() on an Err value"]
        ELSE IF ~compressed_data.ok
        THEN [ok |-> FALSE, kind |-> "panic", msg |-> "compression should succeed"]
        ELSE [ok |-> TRUE,
              compressed_data |-> compressed_data.val,
              data_end_offsets |-> [i \in 1..n |-> EndOffset(data, i)]]

\* derive(AssetEnum): the constants of the generated impl
derive_asset_enum(c, file_data) ==
    LET checksums == checksums_tokens(file_data)
        prepared == prepare_asset_archive(c, file_data)
    IN  IF ~prepared.ok THEN prepared
        ELSE [ok |-> TRUE,
              DATA |-> prepared.compressed_data,
              DATA_END_OFFSETS |-> prepared.data_end_offsets,
              CHECKSUMS |-> checksums,
              CODEC |-> c]

---------------------------------------------------------------------------
(* Ordinal loader: include_assets_decode/src/enums.rs *)

\* lookup that takes every asset to start at 0
lookup_FromZero(E, data, i) ==
    IF i + 1 > Len(E.DATA_END_OFFSETS)
    THEN [ok |-> FALSE, kind |-> "panic", msg |-> "index out of bounds"]
    ELSE LET end == E.DATA_END_OFFSETS[i + 1]
         IN  IF end > Len(data)
             THEN [ok |-> FALSE, kind |-> "panic", msg |-> "slice index out of range"]
             ELSE [ok |-> TRUE, val |-> SubSeq(data, 1, end)]

\* EnumArchive::lookup(i) for the enum E, ordinals counted from 0
lookup(E, data, i) ==
    IF i + 1 > Len(E.DATA_END_OFFSETS)
    THEN [ok |-> FALSE, kind |-> "panic", msg |-> "index out of bounds"]
    ELSE LET end == E.DATA_END_OFFSETS[i + 1]
             start == IF i >= 1 THEN E.DATA_END_OFFSETS[i] ELSE 0
         IN  IF start > end \/ end > Len(data)
             THEN [ok |-> FALSE, kind |-> "panic", msg |-> "slice index out of range"]
             ELSE [ok |-> TRUE, val |-> SubSeq(data, start + 1, end)]

\* the checksum loop stopping after the first ordinal
CheckFrom_FirstOnly(E, data, i) ==
    IF i >= Len(E.CHECKSUMS) THEN [ok |-> TRUE, data |-> data]
    ELSE LET slice == lookup(E, data, i)
             checked == check(slice.val, E.CHECKSUMS[i + 1])
         IN  IF ~slice.ok THEN slice
             ELSE IF ~checked.ok
             THEN [ok |-> FALSE, kind |-> "panic", msg |-> "checksum should match",
                   err |-> checked.err, display |-> MismatchDisplay(checked.err)]
             ELSE [ok |-> TRUE, data |-> data]

\* the checksum loop of AssetEnum::load from ordinal i on: the first panic,
\* or the archive
RECURSIVE CheckFrom(_, _, _)
CheckFrom(E, data, i) ==
    IF i >= Len(E.CHECKSUMS) THEN [ok |-> TRUE, data |-> data]
    ELSE LET slice == lookup(E, data, i)
             checked == check(slice.val, E.CHECKSUMS[i + 1])
         IN  IF ~slice.ok THEN slice
             ELSE IF ~checked.ok
             THEN [ok |-> FALSE, kind |-> "panic", msg |-> "checksum should match",
                   err |-> checked.err, display |-> MismatchDisplay(checked.err)]
             ELSE CheckFrom(E, data, i + 1)

\* AssetEnum::load(): the set of possible outcomes
AssetEnum_load(E) ==
    LET size == IF E.DATA_END_OFFSETS = <<>> THEN 0
                ELSE E.DATA_END_OFFSETS[Len(E.DATA_END_OFFSETS)]
    IN  {IF ~d.ok THEN d ELSE CheckFrom(E, d.dst, 0) :
           d \in decompress(E.CODEC, E.DATA, Zeros(size))}

---------------------------------------------------------------------------
(* Deriving and loading an asset enum *)

\* values a corrupted byte of the compressed data may take
FlipValues == {0, 1, 2, 16, 17, 32}

InitEnum ==
    /\ pc = "start"
    /\ codec \in Codecs
    /\ files \in SeqsUpTo(Contents, MaxAssets)
    /\ table = None
    /\ manifest = <<>>
    /\ manifest2 = <<>>
    /\ tree = None
    /\ enumOrder = <<>>
    /\ links = [some |-> FALSE]
    /\ presented = None
    /\ pkg = None
    /\ pkg2 = None
    /\ archive = None
    /\ bundle = None
    /\ tampered = "no"
    /\ query = None
    /\ answer = None

\* #[derive(AssetEnum)] at build time
Derive ==
    /\ pc = "start"
    /\ bundle' = derive_asset_enum(codec, files)
    /\ pc' = IF bundle'.ok THEN "derived" ELSE "derive_failed"
    /\ UNCHANGED <<codec, tree, enumOrder, links, presented, manifest, manifest2, pkg, pkg2, archive,
                   files, table, tampered, query, answer>>

\* one byte of the compressed data changes between build and load
TamperData(i, v) ==
    /\ pc = "derived"
    /\ tampered = "no"
    /\ i \in 1..Len(bundle.DATA)
    /\ v # bundle.DATA[i]
    /\ bundle' = [bundle EXCEPT !.DATA[i] = v]
    /\ tampered' = "data"
    /\ UNCHANGED <<pc, codec, tree, enumOrder, links, presented, manifest, manifest2, pkg, pkg2,
                   archive, files, table, query, answer>>

\* one recorded checksum differs from the asset's (a build/run-time skew)
TamperChecksum(i, d) ==
    /\ pc = "derived"
    /\ tampered = "no"
    /\ i \in 1..Len(bundle.CHECKSUMS)
    /\ compute_checksum(d) # bundle.CHECKSUMS[i]
    /\ bundle' = [bundle EXCEPT !.CHECKSUMS[i] = compute_checksum(d)]
    /\ tampered' = "checksums"
    /\ UNCHANGED <<pc, codec, tree, enumOrder, links, presented, manifest, manifest2, pkg, pkg2,
                   archive, files, table, query, answer>>

\* EnumArchive::<E>::load() at run time
EnumLoad ==
    /\ pc = "derived"
    /\ \E r \in AssetEnum_load(bundle) :
         /\ archive' = r
         /\ pc' = IF r.ok THEN "loaded" ELSE "load_failed"
    /\ UNCHANGED <<codec, tree, enumOrder, links, presented, manifest, manifest2, pkg, pkg2,
                   files, table, bundle, tampered, query, answer>>

\* &archive[e] for the variant e of ordinal i
Index(i) ==
    /\ pc = "loaded"
    /\ i < Len(bundle.CHECKSUMS)
    /\ query' = [op |-> "index", ordinal |-> i]
    /\ answer' = lookup(bundle, archive.data, i)
    /\ UNCHANGED <<pc, codec, tree, enumOrder, links, presented, manifest, manifest2, pkg, pkg2,
                   archive, files, table, bundle, tampered>>

NextEnum ==
    \/ Derive
    \/ \E i \in 1..(2 * MaxAssets + 1), v \in FlipValues : TamperData(i, v)
    \/ \E i \in 1..MaxAssets, d \in Contents : TamperChecksum(i, d)
    \/ EnumLoad
    \/ \E i \in 0..(MaxAssets - 1) : Index(i)

SpecEnum == InitEnum /\ [][NextEnum]_vars

---------------------------------------------------------------------------
(* Properties of the ordinal pipeline (checked under SpecEnum) *)

\* the slice of ordinal i (counted from 0) of a decompressed data buffer
SliceOf(data, i) == lookup(bundle, data, i).val

\* C2: ordinal round trip.  For any list of N files in declaration order the
\* derive succeeds, the load of the derived bundle succeeds, and indexing by
\* ordinal i returns the bytes of the i-th declared file.
C2_OrdinalRoundTrip ==
    tampered = "no" =>
        /\ pc # "derive_failed"
        /\ pc # "load_failed"
        /\ pc = "loaded" =>
             \A i \in 0..(Len(files) - 1) :
                 lookup(bundle, archive.data, i) = [ok |-> TRUE, val |-> files[i + 1]]
        /\ (pc = "loaded" /\ query # None) =>
             answer = [ok |-> TRUE, val |-> files[query.ordinal + 1]]

\* two different files were derived, loaded, and the second one indexed
C2_Witness ==
    /\ tampered = "no"
    /\ pc = "loaded"
    /\ Len(files) >= 2
    /\ files[1] # files[2]
    /\ files[1] # <<>>
    /\ query # None
    /\ query.ordinal = 1
    /\ answer = [ok |-> TRUE, val |-> files[2]]

\* the ordinals whose slice of the bundle's data, taken uncompressed, does
\* not match the recorded checksum
Mismatching ==
    {i \in 0..(Len(bundle.CHECKSUMS) - 1) :
        compute_checksum(SliceOf(bundle.DATA, i)) # bundle.CHECKSUMS[i + 1]}

\* C9: ordinal checksum verification.  load returns an archive only if every
\* ordinal's slice of the decompressed data has the recorded checksum; when
\* one does not, the load panics with the Mismatch of the first such ordinal,
\* which carries the recorded (expected) and the computed (actual) digest.
C9_ChecksumVerification ==
    /\ pc = "loaded" =>
         \A i \in 0..(Len(bundle.CHECKSUMS) - 1) :
             compute_checksum(SliceOf(archive.data, i)) = bundle.CHECKSUMS[i + 1]
    /\ (pc = "load_failed" /\ archive.msg = "checksum should match") =>
         /\ archive.err.type = "Mismatch"
         /\ archive.err.expected \in Range(bundle.CHECKSUMS)
         /\ archive.err.actual # archive.err.expected
         /\ archive.display = <<"Checksum mismatch: expected ", archive.err.expected,
                                ", got ", archive.err.actual>>
    /\ (codec = Uncompressed /\ pc \in {"loaded", "load_failed"}) =>
         IF Mismatching = {}
         THEN pc = "loaded"
         ELSE /\ pc = "load_failed"
              /\ archive.msg = "checksum should match"
              /\ archive.err.expected = bundle.CHECKSUMS[FirstIndex(Mismatching) + 1]
              /\ archive.err.actual =
                     compute_checksum(SliceOf(bundle.DATA, FirstIndex(Mismatching)))

\* a load that failed on the checksum of the second of several assets
C9_Witness ==
    /\ pc = "load_failed"
    /\ archive.msg = "checksum should match"
    /\ codec = Uncompressed
    /\ Mismatching # {}
    /\ FirstIndex(Mismatching) = 1
    /\ archive.err.expected = bundle.CHECKSUMS[2]

\* C10 as stated: after one byte of a built bundle's compressed data was
\* changed, load fails with a reported checksum mismatch and never returns
\* an archive.
C10_FlipReportsMismatch ==
    (tampered = "data" /\ pc \in {"loaded", "load_failed"}) =>
        /\ pc = "load_failed"
        /\ archive.msg = "checksum should match"

\* C10 as amended: with the Uncompressed codec the changed byte makes load
\* fail with a reported checksum mismatch.  With a compressing codec the load
\* fails with a decompression error or a checksum mismatch, or the changed
\* stream still decompresses to the assets as built and the load returns them.
C10_FlipDetection ==
    (tampered = "data" /\ pc \in {"loaded", "load_failed"}) =>
        /\ codec = Uncompressed =>
             /\ pc = "load_failed"
             /\ archive.msg = "checksum should match"
             /\ archive.err.type = "Mismatch"
        /\ pc = "load_failed" =>
             archive.msg \in {"checksum should match", "decompression should succeed"}
        /\ pc = "loaded" => archive.data = Concat(files)

\* a flipped byte under the Uncompressed codec was caught by the checksums
C10_Witness ==
    /\ tampered = "data"
    /\ codec = Uncompressed
    /\ pc = "load_failed"
    /\ archive.msg = "checksum should match"
    /\ Len(files) >= 2


---------------------------------------------------------------------------
(* Directory walk: include_assets_encode/src/named.rs, read_dir *)

\* the number of entry names a subdirectory can hold
MaxSubEntries == 2

\* entries of the file system under the base directory
Absent == [kind |-> "absent"]

RegularFile(d) == [kind |-> "file", data |-> d]

Directory(ch) == [kind |-> "dir", children |-> ch]

SymbolicLink(t) == [kind |-> "symlink", target |-> t]

\* file names: "a" and "a.b" in the base directory, "b", "c", .. below it
RootNames == { <<97>>, <<97, 46, 98>> }

SubNames == { <<97 + k>> : k \in 1..MaxSubEntries }

FileData == { <<>>, <<1>> }

Leaves ==
    {Absent} \cup {RegularFile(d) : d \in FileData}
             \cup {SymbolicLink(RegularFile(<<1>>))}

SubDirs == {Directory(ch) : ch \in [SubNames -> Leaves]}

LinkedDirs ==
    {SymbolicLink(Directory(ch)) :
       ch \in [SubNames -> {Absent} \cup {RegularFile(d) : d \in FileData}]}

Trees ==
    {Directory(ch) :
       ch \in {f \in [RootNames -> Leaves \cup SubDirs \cup LinkedDirs] :
                 f[<<97, 46, 98>>] \in Leaves}}

Perms(S) == {s \in SeqsOfLen(S, Cardinality(S)) : Range(s) = S}

\* the orders in which the file system may enumerate the entries of a directory
EnumOrders == {r \o u : r \in Perms(RootNames), u \in Perms(SubNames)}

\* SymlinkRules
SymlinkRules == {"forbid", "ignore", "follow"}

\* a parser whose default is to ignore symbolic links
parse_symlink_rules_DefaultIgnore(lit) ==
    IF ~lit.some THEN [ok |-> TRUE, val |-> "ignore"]
    ELSE IF lit.str /\ lit.value \in SymlinkRules
    THEN [ok |-> TRUE, val |-> lit.value]
    ELSE [ok |-> FALSE, kind |-> "panic",
          msg |-> "invalid/unsupported rule for symbolic links"]

\* parse_symlink_rules(lit): lit is the "links" option: absent, a string
\* literal (str) with its value, or a literal of another kind
parse_symlink_rules(lit) ==
    IF ~lit.some THEN [ok |-> TRUE, val |-> "forbid"]
    ELSE IF lit.str
    THEN IF lit.value \in SymlinkRules THEN [ok |-> TRUE, val |-> lit.value]
         ELSE [ok |-> FALSE, kind |-> "panic",
               msg |-> "invalid/unsupported rule for symbolic links (supported rules are: forbid, ignore, follow)"]
    ELSE [ok |-> FALSE, kind |-> "panic",
          msg |-> "invalid/unsupported rule for symbolic links (supported rules are : forbid, ignore, follow)"]

\* the values of the "links" option that a build may be written with
LinksOptions ==
    {[some |-> FALSE]} \cup
    {[some |-> TRUE, str |-> TRUE, value |-> v] :
        v \in {"forbid", "ignore", "follow", "skip"}} \cup
    {[some |-> TRUE, str |-> FALSE, value |-> "true"]}

\* std::fs::read_dir as walkdir calls it: the entries of dir in the order the
\* file system enumerates them
readdir(dir, order) ==
    LET Present(n) == n \in DOMAIN dir.children /\ dir.children[n].kind # "absent"
    IN  SelectSeq(order, Present)

RECURSIVE Insert(_, _)
Insert(sorted, n) ==
    IF sorted = <<>> THEN <<n>>
    ELSE IF BytesLess(n, Head(sorted)) THEN <<n>> \o sorted
    ELSE <<Head(sorted)>> \o Insert(Tail(sorted), n)

\* a walk that keeps the order of the file system
sort_by_file_name_Unsorted(names) == names

\* WalkDir::sort_by_file_name(): the entries of one directory ordered by
\* a.file_name().cmp(b.file_name())
RECURSIVE sort_by_file_name(_)
sort_by_file_name(names) ==
    IF names = <<>> THEN <<>>
    ELSE Insert(sort_by_file_name(SubSeq(names, 1, Len(names) - 1)),
                names[Len(names)])

\* the entry that walkdir yields for the child n of dir: a symbolic link is
\* reported as its target when links are followed
DirEntry(dir, path, follow_links, n) ==
    LET e == dir.children[n]
        t == IF e.kind = "symlink" /\ follow_links THEN e.target ELSE e
    IN  [path |-> Append(path, n), file_type |-> t.kind, resolved |-> t]

\* a walk that yields all entries of a directory before it descends
RECURSIVE WalkDir_BreadthFirst(_, _, _, _)
WalkDir_BreadthFirst(dir, path, follow_links, order) ==
    LET listed == sort_by_file_name(readdir(dir, order))
        ents == [i \in 1..Len(listed) |-> DirEntry(dir, path, follow_links, listed[i])]
        Below(e) == IF e.file_type = "dir"
                    THEN WalkDir_BreadthFirst(e.resolved, e.path, follow_links, order)
                    ELSE <<>>
    IN  ents \o Concat([i \in 1..Len(ents) |-> Below(ents[i])])

\* the iteration of walkdir::WalkDir below one directory: depth first, each
\* directory is yielded before its contents
RECURSIVE WalkDir(_, _, _, _)
WalkDir(dir, path, follow_links, order) ==
    LET listed == sort_by_file_name(readdir(dir, order))
        Visit(n) ==
            LET e == DirEntry(dir, path, follow_links, n)
            IN  IF e.file_type = "dir"
                THEN <<e>> \o WalkDir(e.resolved, e.path, follow_links, order)
                ELSE <<e>>
    IN  Concat([i \in 1..Len(listed) |-> Visit(listed[i])])

\* ent.path().strip_prefix(base).to_str(): the components joined with '/'
RECURSIVE PathString(_)
PathString(p) ==
    IF p = <<>> THEN <<>>
    ELSE IF Len(p) = 1 THEN p[1]
    ELSE PathString(SubSeq(p, 1, Len(p) - 1)) \o <<47>> \o p[Len(p)]

\* std::fs::read(path): the content of the file at path, links resolved
RECURSIVE fs_read(_, _)
fs_read(e, path) ==
    LET t == IF e.kind = "symlink" THEN e.target ELSE e
    IN  IF path = <<>> THEN t.data ELSE fs_read(t.children[Head(path)], Tail(path))

\* the loop of read_dir over the entries of the walk
RECURSIVE ReadEntries(_, _, _, _)
ReadEntries(base, entries, ignore_symlinks, assets) ==
    IF entries = <<>> THEN [ok |-> TRUE, val |-> assets]
    ELSE LET ent == Head(entries)
         IN  IF ent.file_type = "dir"
             THEN ReadEntries(base, Tail(entries), ignore_symlinks, assets)
             ELSE IF ent.file_type = "file"
             THEN ReadEntries(base, Tail(entries), ignore_symlinks,
                      Append(assets, [name |-> PathString(ent.path),
                                      data |-> fs_read(base, ent.path)]))
             ELSE IF ignore_symlinks
             THEN ReadEntries(base, Tail(entries), ignore_symlinks, assets)
             ELSE [ok |-> FALSE, kind |-> "err",
                   msg |-> "Encountered a symbolic link",
                   path |-> PathString(ent.path)]

\* read_dir(base, symlink_rules) when the file system enumerates in order
read_dir(base, symlink_rules, order) ==
    LET follow_symlinks == symlink_rules = "follow"
        ignore_symlinks == symlink_rules = "ignore"
        root == [path |-> <<>>, file_type |-> "dir", resolved |-> base]
    IN  ReadEntries(base, <<root>> \o WalkDir(base, <<>>, follow_symlinks, order),
                    ignore_symlinks, <<>>)

\* include_dir!: prepare_named_archive(codec, read_dir(path, rules).unwrap()).unwrap()
\* with rules = parse_symlink_rules(opts.get("links")), lit being that option
include_dir(c, base, lit, order) ==
    LET symlink_rules == parse_symlink_rules(lit)
        assets == read_dir(base, symlink_rules.val, order)
    IN  IF ~symlink_rules.ok THEN symlink_rules
        ELSE IF ~assets.ok
        THEN [ok |-> FALSE, kind |-> "panic",
              msg |-> "called Result::unwrap() on an Err value", err |-> assets]
        ELSE LET built == prepare_named_archive(c, assets.val)
             IN  IF ~built.ok /\ built.kind = "err"
                 THEN [ok |-> FALSE, kind |-> "panic",
                       msg |-> "called Result::unwrap() on an Err value",
                       err |-> built]
                 ELSE built


---------------------------------------------------------------------------
(* The build of a directory, and a second build of the same assets *)

InitDir ==
    /\ pc = "start"
    /\ codec \in Codecs
    /\ tree \in Trees
    /\ enumOrder \in EnumOrders
    /\ links \in LinksOptions
    /\ presented = None
    /\ manifest = <<>>
    /\ manifest2 = <<>>
    /\ pkg = None
    /\ pkg2 = None
    /\ archive = None
    /\ files = <<>>
    /\ table = None
    /\ bundle = None
    /\ tampered = "no"
    /\ query = None
    /\ answer = None

\* the assets that include_dir! hands to prepare_named_archive, none when
\* the option or the walk fails
AssetsRead(base, lit, order) ==
    LET symlink_rules == parse_symlink_rules(lit)
        assets == read_dir(base, symlink_rules.val, order)
    IN  IF symlink_rules.ok /\ assets.ok THEN assets.val ELSE <<>>

\* include_dir!(path, compression, links) at build time
IncludeDir ==
    /\ pc = "start"
    /\ manifest' = AssetsRead(tree, links, enumOrder)
    /\ pkg' = include_dir(codec, tree, links, enumOrder)
    /\ pc' = IF pkg'.ok THEN "built" ELSE "build_failed"
    /\ UNCHANGED <<codec, tree, enumOrder, links, presented, manifest2, pkg2,
                   archive, files, table, bundle, tampered, query, answer>>

\* include_dir! once more on the same directory, which the file system now
\* enumerates in the order o
Rebuild(o) ==
    /\ pc = "built"
    /\ presented' = [ok |-> TRUE, by |-> "read_dir", order |-> o]
    /\ manifest2' = AssetsRead(tree, links, o)
    /\ pkg2' = include_dir(codec, tree, links, o)
    /\ pc' = "rebuilt"
    /\ UNCHANGED <<codec, tree, enumOrder, links, manifest, pkg, archive,
                   files, table, bundle, tampered, query, answer>>

\* prepare_named_archive on the assets of the first build, handed over in
\* the order p
Repack(p) ==
    /\ pc = "built"
    /\ presented' = [ok |-> TRUE, by |-> "manifest", order |-> p]
    /\ manifest2' = [i \in 1..Len(manifest) |-> manifest[p[i]]]
    /\ pkg2' = prepare_named_archive(codec, manifest2')
    /\ pc' = "rebuilt"
    /\ UNCHANGED <<codec, tree, enumOrder, links, manifest, pkg, archive,
                   files, table, bundle, tampered, query, answer>>

NextDir ==
    \/ IncludeDir
    \/ \E o \in EnumOrders : Rebuild(o)
    \/ \E p \in Perms(1..Len(manifest)) : Repack(p)

SpecDir == InitDir /\ [][NextDir]_vars

\* the names of a package in the order of its names stream
NamesStream(built) ==
    decompress_names(codec, built.compressed_names, built.uncompressed_names_size)

\* s is strictly ascending under Less
Ascending(s, Less(_, _)) == \A i, j \in 1..Len(s) : i < j => Less(s[i], s[j])

\* the components of a relative path: the pieces between '/'
RECURSIVE Components(_)
Components(s) ==
    IF 47 \notin Range(s) THEN <<s>>
    ELSE LET i == FirstIndex({k \in 1..Len(s) : s[k] = 47})
         IN  <<SubSeq(s, 1, i - 1)>> \o Components(SubSeq(s, i + 1, Len(s)))

\* paths compared component by component (Ord for std::path::Path)
RECURSIVE ComponentsLess(_, _)
ComponentsLess(p, q) ==
    IF q = <<>> THEN FALSE
    ELSE IF p = <<>> THEN TRUE
    ELSE IF Head(p) # Head(q) THEN BytesLess(Head(p), Head(q))
    ELSE ComponentsLess(Tail(p), Tail(q))

PathLess(a, b) == ComponentsLess(Components(a), Components(b))

\* C3 as stated: the same assets handed to the builder in any two orders
\* give byte-identical packages
C3_BuildIndependentOfOrder ==
    pc = "rebuilt" => pkg2 = pkg

\* C3: a directory built twice gives byte-identical packages whatever the
\* order in which the file system enumerates its entries, because read_dir
\* sorts each directory by file name; prepare_named_archive itself keeps the
\* order it is given, so that reordered assets give the same package only
\* when the order is the same
C3_DirectoryBuildIndependentOfEnumeration ==
    pc = "rebuilt" =>
        /\ presented.by = "read_dir" => manifest2 = manifest /\ pkg2 = pkg
        /\ presented.by = "manifest" => (pkg2 = pkg <=> manifest2 = manifest)

C3_Witness ==
    /\ pc = "rebuilt"
    /\ presented.by = "read_dir"
    /\ readdir(tree, presented.order) # readdir(tree, enumOrder)
    /\ Len(manifest) >= 2
    /\ pkg2.ok
    /\ pkg2 = pkg

---------------------------------------------------------------------------
(* Loading a named package that differs from the one built, and the
   accessors of the loaded archive *)

\* Index<S> for NamedArchive that yields an empty slice for an absent name
NamedArchive_index_EmptyIfAbsent(a, s) ==
    LET r == NamedArchive_get(a, s)
    IN  [ok |-> TRUE, val |-> IF r.some THEN r.val ELSE <<>>]

\* Index<S> for NamedArchive: &archive[s]
NamedArchive_index(a, s) ==
    LET r == NamedArchive_get(a, s)
    IN  IF r.some THEN [ok |-> TRUE, val |-> r.val]
        ELSE [ok |-> FALSE, kind |-> "panic", msg |-> "asset not found", name |-> s]

\* the manifests of the packages that are altered: valid ones, of assets
\* of at most one byte
PkgManifests ==
    {m \in Manifests :
       ValidManifest(m) /\ \A i \in 1..Len(m) : Len(m[i].data) <= 1}

InitPkg ==
    /\ Init
    /\ manifest \in PkgManifests

\* the checksums that a package may carry instead of those of its assets
OtherChecksums(n) ==
    SeqsOfLen({compute_checksum(<<>>), compute_checksum(<<9>>)}, n)

\* the checksums of the package differ from those the builder computed,
\* their number being the same
TamperChecksums(cs) ==
    /\ pc = "built"
    /\ tampered = "no"
    /\ Len(cs) = Len(pkg.checksums)
    /\ cs # pkg.checksums
    /\ pkg' = [pkg EXCEPT !.checksums = cs]
    /\ tampered' = "checksums"
    /\ UNCHANGED <<pc, codec, tree, enumOrder, links, presented, manifest, manifest2,
                   pkg2, archive, files, table, bundle, query, answer>>

\* the names stream of the package is that of other names: the last name
\* is missing (drop) or one more name follows
TamperNames(drop) ==
    /\ pc = "built"
    /\ tampered = "no"
    /\ drop => manifest # <<>>
    /\ LET n == Len(manifest)
           names == IF drop THEN [i \in 1..(n - 1) |-> manifest[i].name]
                    ELSE [i \in 1..(n + 1) |->
                             IF i <= n THEN manifest[i].name ELSE <<122>>]
           stream == compress_names(codec, names)
       IN  pkg' = [pkg EXCEPT !.compressed_names = stream.compressed_names,
                              !.uncompressed_names_size = stream.uncompressed_size]
    /\ tampered' = "names"
    /\ UNCHANGED <<pc, codec, tree, enumOrder, links, presented, manifest, manifest2,
                   pkg2, archive, files, table, bundle, query, answer>>

\* the sizes stream of the package gives the size s for the asset i
TamperSizes(i, s) ==
    /\ pc = "built"
    /\ tampered = "no"
    /\ i \in 1..Len(manifest)
    /\ s # Len(manifest[i].data)
    /\ LET sizes == [k \in 1..Len(manifest) |->
                        [name |-> manifest[k].name,
                         size |-> IF k = i THEN s ELSE Len(manifest[k].data)]]
       IN  pkg' = [pkg EXCEPT !.compressed_sizes = compress_sizes(codec, sizes).val]
    /\ tampered' = "sizes"
    /\ UNCHANGED <<pc, codec, tree, enumOrder, links, presented, manifest, manifest2,
                   pkg2, archive, files, table, bundle, query, answer>>

\* the sizes stream of the package gives one byte of the asset i to the
\* asset after it (forward) or one byte of the asset after it to the asset
\* i, the sum of the sizes being that of the data
MoveSizes(i, forward) ==
    /\ pc = "built"
    /\ tampered = "no"
    /\ i \in 1..(Len(manifest) - 1)
    /\ LET from == IF forward THEN i ELSE i + 1
           to == IF forward THEN i + 1 ELSE i
           sizes == [k \in 1..Len(manifest) |->
                        [name |-> manifest[k].name,
                         size |-> IF k = from THEN Len(manifest[k].data) - 1
                                  ELSE IF k = to THEN Len(manifest[k].data) + 1
                                  ELSE Len(manifest[k].data)]]
       IN  /\ Len(manifest[from].data) >= 1
           /\ pkg' = [pkg EXCEPT !.compressed_sizes = compress_sizes(codec, sizes).val]
    /\ tampered' = "moved"
    /\ UNCHANGED <<pc, codec, tree, enumOrder, links, presented, manifest, manifest2,
                   pkg2, archive, files, table, bundle, query, answer>>

\* archive.contains(name)
Contains(name) ==
    /\ pc = "loaded"
    /\ query' = [op |-> "contains", name |-> name]
    /\ answer' = NamedArchive_contains(archive, name)
    /\ UNCHANGED <<pc, codec, tree, enumOrder, links, presented, manifest, manifest2,
                   pkg, pkg2, archive, files, table, bundle, tampered>>

\* &archive[name]
IndexName(name) ==
    /\ pc = "loaded"
    /\ query' = [op |-> "index", name |-> name]
    /\ answer' = NamedArchive_index(archive, name)
    /\ UNCHANGED <<pc, codec, tree, enumOrder, links, presented, manifest, manifest2,
                   pkg, pkg2, archive, files, table, bundle, tampered>>

NextPkg ==
    \/ Build
    \/ \E cs \in OtherChecksums(Len(manifest)) : TamperChecksums(cs)
    \/ \E drop \in BOOLEAN : TamperNames(drop)
    \/ \E i \in 1..MaxAssets, s \in 0..3 : TamperSizes(i, s)
    \/ \E i \in 1..MaxAssets, forward \in BOOLEAN : MoveSizes(i, forward)
    \/ Load
    \/ \E name \in Names : Get(name)
    \/ \E name \in Names : Contains(name)
    \/ \E name \in Names : IndexName(name)

SpecPkg == InitPkg /\ [][NextPkg]_vars

\* the package as the builder made it from the manifest
BuiltPackage == CompressedNamedArchive(codec, prepare_named_archive(codec, manifest))

\* C11: the named loader ignores the checksum values.  A package whose
\* checksums were replaced by as many other values loads with exactly the
\* outcomes of the package as built, in particular successfully and to the
\* same archive, also when no checksum is that of its asset.
C11_LoadIgnoresChecksums ==
    (pc \in {"built", "loaded", "load_failed"} /\ tampered = "checksums") =>
        /\ NamedArchive_load(CompressedNamedArchive(codec, pkg)) = NamedArchive_load(BuiltPackage)
        /\ LoadAttempted => archive \in NamedArchive_load(BuiltPackage)
        /\ (LoadAttempted /\ manifest # <<>>) => archive.ok

C11_Witness ==
    /\ pc = "loaded"
    /\ tampered = "checksums"
    /\ Len(manifest) >= 2
    /\ \A i \in 1..Len(manifest) :
         pkg.checksums[i] # compute_checksum(manifest[i].data)
    /\ archive.ok
    /\ query # None
    /\ query.op = "get"
    /\ answer.some

\* the names of the manifest
ManifestNames == {manifest[i].name : i \in 1..Len(manifest)}

\* the answer of an accessor of the loaded named archive to the last query
NamedAnswer(q) ==
    IF q.op = "get" THEN NamedArchive_get(archive, q.name)
    ELSE IF q.op = "contains" THEN NamedArchive_contains(archive, q.name)
    ELSE NamedArchive_index(archive, q.name)

\* C12: absent names in a loaded named archive.  For a name that is not in
\* the manifest get returns None, contains returns false and the indexing
\* accessor panics; for a name of the manifest contains is true and indexing
\* returns the bytes that get returns; contains(name) is true exactly when
\* get(name) is Some.
C12_AbsentNames ==
    (pc = "loaded" /\ tampered \in {"no", "checksums"}) =>
        /\ \A name \in Names :
             /\ name \notin ManifestNames =>
                  /\ NamedArchive_get(archive, name) = [some |-> FALSE]
                  /\ NamedArchive_contains(archive, name) = FALSE
                  /\ ~NamedArchive_index(archive, name).ok
                  /\ NamedArchive_index(archive, name).kind = "panic"
             /\ name \in ManifestNames =>
                  /\ NamedArchive_contains(archive, name) = TRUE
                  /\ NamedArchive_index(archive, name).ok
                  /\ NamedArchive_get(archive, name) =
                         Some(NamedArchive_index(archive, name).val)
             /\ NamedArchive_contains(archive, name) <=>
                    NamedArchive_get(archive, name).some
        /\ query # None =>
             /\ answer = NamedAnswer(query)
             /\ (query.op = "index" /\ query.name \notin ManifestNames) =>
                    (~answer.ok /\ answer.kind = "panic")
             /\ (query.op = "get" /\ query.name \notin ManifestNames) =>
                    answer = [some |-> FALSE]
             /\ (query.op = "contains") => (answer <=> query.name \in ManifestNames)

C12_Witness ==
    /\ pc = "loaded"
    /\ tampered = "no"
    /\ Len(manifest) >= 2
    /\ query # None
    /\ query.op = "index"
    /\ query.name \notin ManifestNames
    /\ ~answer.ok
    /\ \E name \in ManifestNames : NamedArchive_index(archive, name).ok

\* ranges.last().map(|range| range.end).unwrap_or(0)
FinalEnd(ranges) == IF ranges = <<>> THEN 0 ELSE ranges[Len(ranges)].end

\* the load panicked and there is no archive
LoadAborted == pc = "load_failed" /\ ~archive.ok /\ archive.kind = "panic"

\* C13: the fatal checks of the named load.  Whenever the names stream of
\* the loaded package gives a number of names other than the number of
\* ranges that its sizes stream gives, and whenever the end of the final
\* range (0 without ranges) is not the declared uncompressed data size, the
\* load panics and returns no archive.
C13_LoadFatalChecks ==
    LoadAttempted =>
        \A n \in decompress_names(codec, pkg.compressed_names,
                                  pkg.uncompressed_names_size) :
        \A r \in decompress_ranges(codec, pkg.compressed_sizes, Len(pkg.checksums)) :
            (n.ok /\ r.ok) =>
                /\ Len(n.val) # Len(r.val) => LoadAborted
                /\ FinalEnd(r.val) # pkg.uncompressed_data_size => LoadAborted

C13_Witness ==
    /\ LoadAborted
    /\ tampered = "names"
    /\ Len(manifest) >= 2
    /\ archive.msg = "number of asset names should equal number of asset data ranges"

\* the load of a package whose sizes do not add up to the declared size
C13_FinalRangeCase ==
    /\ LoadAborted
    /\ tampered = "sizes"
    /\ archive.msg = "the final range should end where the data ends"

---------------------------------------------------------------------------
(* Properties of the builder's validation (checked under Spec) *)

\* the positions of the manifest whose name occurred before
DuplicateNames == {i \in 1..Len(manifest) :
                     \E j \in 1..(i - 1) : manifest[j].name = manifest[i].name}

\* the positions of the manifest whose name holds a null byte
NullByteNames == {i \in 1..Len(manifest) : 0 \in Range(manifest[i].name)}

\* C14 as stated: the builder fails without a package whenever two assets
\* have the same name or a name holds a null byte, and the failure reports
\* the offending name in both cases.
C14_ValidationReportsName ==
    (pc # "start" /\ ~ValidManifest(manifest)) =>
        /\ pc = "build_failed"
        /\ ~pkg.ok
        /\ "name" \in DOMAIN pkg
        /\ pkg.name \in {manifest[i].name : i \in DuplicateNames \cup NullByteNames}

\* C14: the builder fails (panics) without a package whenever two assets
\* have the same name or a name holds a null byte.  The failure for a
\* duplicate reports the first name that repeats; the failure for a null
\* byte, which is reached only without duplicates, is a bare assertion
\* failure that reports no name.
C14_ValidationFails ==
    (pc # "start" /\ ~ValidManifest(manifest)) =>
        /\ pc = "build_failed"
        /\ ~pkg.ok
        /\ pkg.kind = "panic"
        /\ DuplicateNames # {} =>
             /\ pkg.msg = "duplicate asset name"
             /\ pkg.name = manifest[FirstIndex(DuplicateNames)].name
        /\ DuplicateNames = {} =>
             /\ pkg.msg = "assertion failed: !name.as_ref().as_bytes().contains(&0)"
             /\ "name" \notin DOMAIN pkg

C14_Witness ==
    /\ pc = "build_failed"
    /\ Len(manifest) >= 2
    /\ DuplicateNames = {}
    /\ NullByteNames # {}
    /\ pkg.kind = "panic"
    /\ "name" \notin DOMAIN pkg

\* a build that fails on a duplicate name
C14_DuplicateCase ==
    /\ pc = "build_failed"
    /\ DuplicateNames # {}
    /\ NullByteNames = {}
    /\ pkg.name = manifest[FirstIndex(DuplicateNames)].name

---------------------------------------------------------------------------
(* The size limits of the builder: include_assets_encode/src/common.rs and
   named.rs on lengths beyond u32.  A usize is kept as two digits of base
   65536, [hi, lo] standing for hi * 65536 + lo. *)

\* the number of runs of equal assets in a manifest of large sizes
MaxRuns == 2

Wide(hi, lo) == [hi |-> hi, lo |-> lo]

\* usize addition
WAdd(a, b) ==
    Wide(a.hi + b.hi + (a.lo + b.lo) \div 65536, (a.lo + b.lo) % 65536)

\* usize multiplication by a small number
WMulSmall(a, k) ==
    Wide(a.hi * k + (a.lo * k) \div 65536, (a.lo * k) % 65536)

\* usize multiplication, one of the factors being at most 4
WMul(a, b) ==
    IF b.hi = 0 /\ b.lo <= 4 THEN WMulSmall(a, b.lo) ELSE WMulSmall(b, a.lo)

\* usize subtraction of one, saturating at zero
WPred(a) ==
    IF a.lo > 0 THEN Wide(a.hi, a.lo - 1)
    ELSE IF a.hi > 0 THEN Wide(a.hi - 1, 65535)
    ELSE a

WLessEq(a, b) == a.hi < b.hi \/ (a.hi = b.hi /\ a.lo <= b.lo)

RECURSIVE WSum(_)
WSum(s) == IF s = <<>> THEN Wide(0, 0) ELSE WAdd(Head(s), WSum(Tail(s)))

\* u32::MAX
U32Max == Wide(65535, 65535)

\* u32::try_from(n) that takes every length
WFits_Always(n) == TRUE

\* u32::try_from(n).is_ok() / n.try_into::<u32>().is_ok()
WFits(n) == n.hi <= 65535

\* a manifest of large sizes is a sequence of runs: count assets in a row,
\* each with a name of name_len bytes and data of size bytes
RunCounts == { Wide(0, 1), Wide(0, 2), Wide(16383, 65535), Wide(16384, 0),
               Wide(65535, 65535), Wide(65536, 0) }

RunSizes == { Wide(0, 0), Wide(0, 1), Wide(32768, 0), Wide(65535, 65535),
              Wide(65536, 0) }

\* names of one byte suffice for a few assets, unique names for many more
\* take eight; the model multiplies a large count by a small size only
Runs ==
    {r \in [count : RunCounts, name_len : {1, 8}, size : RunSizes] :
       /\ (r.count.hi = 0) \/ (r.size.hi = 0 /\ r.name_len = 8)
       /\ (r.count.hi = 0) => r.name_len = 1}

\* the number of assets
AssetCount(runs) == WSum([i \in 1..Len(runs) |-> runs[i].count])

\* uncompressed_data.len() after the extend_from_slice loop
DataLength(runs) == WSum([i \in 1..Len(runs) |-> WMul(runs[i].count, runs[i].size)])

\* uncompressed_names.len(): the names and a null byte between each two
NamesLength(runs) ==
    WAdd(WSum([i \in 1..Len(runs) |->
                  WMulSmall(runs[i].count, runs[i].name_len)]),
         WPred(AssetCount(runs)))

\* sizes_vec.len(): four bytes for each asset
SizesLength(runs) == WMulSmall(AssetCount(runs), 4)

\* compress_names on the lengths: the uncompressed size or the error
compress_names_wide(runs) ==
    IF ~WFits(NamesLength(runs))
    THEN [ok |-> FALSE, kind |-> "err", msg |-> "uncompressed names are too long",
          bytes |-> NamesLength(runs)]
    ELSE [ok |-> TRUE, uncompressed_size |-> NamesLength(runs)]

\* compress_sizes on the lengths: the length of sizes_vec or the error
compress_sizes_wide(runs) ==
    LET big == {i \in 1..Len(runs) : ~WFits(runs[i].size)}
    IN  IF big # {}
        THEN [ok |-> FALSE, kind |-> "err", msg |-> "asset is too big",
              name |-> FirstIndex(big), bytes |-> runs[FirstIndex(big)].size]
        ELSE IF ~WFits(SizesLength(runs))
        THEN [ok |-> FALSE, kind |-> "err",
              msg |-> "too many assets: size of uncompressed asset sizes is too big",
              bytes |-> SizesLength(runs)]
        ELSE [ok |-> TRUE, sizes_len |-> SizesLength(runs)]

\* prepare_named_archive on the lengths, for unique names without null
\* bytes and a codec whose compress does not fail
prepare_named_archive_wide(runs) ==
    LET names == compress_names_wide(runs)
        sizes == compress_sizes_wide(runs)
    IN  IF ~names.ok THEN names
        ELSE IF ~sizes.ok THEN sizes
        ELSE IF ~WFits(DataLength(runs))
        THEN [ok |-> FALSE, kind |-> "err", msg |-> "too much data",
              bytes |-> DataLength(runs)]
        ELSE [ok |-> TRUE,
              uncompressed_data_size |-> DataLength(runs),
              uncompressed_names_size |-> names.uncompressed_size,
              number_of_checksums |-> AssetCount(runs)]

InitLimits ==
    /\ pc = "start"
    /\ codec = Uncompressed
    /\ manifest \in SeqsUpTo(Runs, MaxRuns)
    /\ manifest2 = <<>>
    /\ tree = None
    /\ enumOrder = <<>>
    /\ links = [some |-> FALSE]
    /\ presented = None
    /\ pkg = None
    /\ pkg2 = None
    /\ archive = None
    /\ files = <<>>
    /\ table = None
    /\ bundle = None
    /\ tampered = "no"
    /\ query = None
    /\ answer = None

\* compress_sizes(codec, sizes) on the sizes of the manifest
CompressSizes ==
    /\ pc = "start"
    /\ query = None
    /\ query' = [op |-> "compress_sizes"]
    /\ answer' = compress_sizes_wide(manifest)
    /\ UNCHANGED <<pc, codec, tree, enumOrder, links, presented, manifest, manifest2,
                   pkg, pkg2, archive, files, table, bundle, tampered>>

\* prepare_named_archive(codec, assets)
BuildLarge ==
    /\ pc = "start"
    /\ pkg' = prepare_named_archive_wide(manifest)
    /\ pc' = IF pkg'.ok THEN "built" ELSE "build_failed"
    /\ UNCHANGED <<codec, tree, enumOrder, links, presented, manifest, manifest2,
                   pkg2, archive, files, table, bundle, tampered, query, answer>>

\* u32 addition that wraps around
checked_add_wide_Wrapping(a, b) ==
    [some |-> TRUE, val |-> Wide(WAdd(a, b).hi % 65536, WAdd(a, b).lo)]

\* u32::checked_add on two-digit numbers
checked_add_wide(a, b) ==
    IF WFits(WAdd(a, b)) THEN [some |-> TRUE, val |-> WAdd(a, b)]
    ELSE [some |-> FALSE]

\* the u32 entries of the sizes stream of a manifest of large sizes, in
\* order: a run of one or two assets gives an entry for each, a longer run
\* (of assets of at most one byte) is taken in one step of the loop
Steps(runs) ==
    Concat([i \in 1..Len(runs) |->
               IF runs[i].count.hi = 0
               THEN [k \in 1..runs[i].count.lo |-> runs[i].size]
               ELSE <<WMul(runs[i].count, runs[i].size)>>])

\* the loop of decompress_ranges on two-digit numbers: the ends of the
\* ranges pushed so far, or the overflow panic
RECURSIVE RangesOfSteps(_, _)
RangesOfSteps(lengths, ranges) ==
    IF ~ranges.ok \/ lengths = <<>> THEN ranges
    ELSE LET start == IF ranges.ends = <<>> THEN Wide(0, 0)
                      ELSE ranges.ends[Len(ranges.ends)]
             end == checked_add_wide(start, Head(lengths))
         IN  RangesOfSteps(
                 Tail(lengths),
                 IF end.some
                 THEN [ok |-> TRUE, ends |-> Append(ranges.ends, end.val)]
                 ELSE [ok |-> FALSE, kind |-> "panic",
                       msg |-> "overflow should have been caught during construction at compile time"])

\* decompress_ranges on the sizes stream that carries the sizes of runs
decompress_ranges_wide(runs) ==
    RangesOfSteps(Steps(runs), [ok |-> TRUE, ends |-> <<>>])

\* NamedArchive::load of the package built: its sizes stream carries the
\* sizes of the manifest
LoadLarge ==
    /\ pc = "built"
    /\ archive' = decompress_ranges_wide(manifest)
    /\ pc' = IF archive'.ok THEN "loaded" ELSE "load_failed"
    /\ UNCHANGED <<codec, tree, enumOrder, links, presented, manifest, manifest2,
                   pkg, pkg2, files, table, bundle, tampered, query, answer>>

\* NamedArchive::load of a package that no builder returned: its sizes
\* stream carries u32 entries whatever they sum to
LoadForeign ==
    /\ pc = "start"
    /\ query = None
    /\ \A i \in 1..Len(manifest) : WFits(manifest[i].size)
    /\ tampered' = "foreign"
    /\ archive' = decompress_ranges_wide(manifest)
    /\ pc' = IF archive'.ok THEN "loaded" ELSE "load_failed"
    /\ UNCHANGED <<codec, tree, enumOrder, links, presented, manifest, manifest2,
                   pkg, pkg2, files, table, bundle, query, answer>>

NextLimits ==
    \/ CompressSizes
    \/ BuildLarge
    \/ LoadLarge
    \/ LoadForeign

SpecLimits == InitLimits /\ [][NextLimits]_vars

\* the lengths of a manifest of assets held in memory, one run for each
Profile(m) ==
    [i \in 1..Len(m) |->
        [count |-> Wide(0, 1), name_len |-> Len(m[i].name),
         size |-> Wide(0, Len(m[i].data))]]

\* The builder on lengths agrees with the builder on the assets themselves
\* (checked under Spec): same outcome, and the same declared sizes.
WideAgreesWithBuilder ==
    (pc # "start" /\ ValidManifest(manifest)) =>
        LET w == prepare_named_archive_wide(Profile(manifest))
        IN  /\ w.ok = pkg.ok
            /\ pkg.ok =>
                 /\ w.uncompressed_data_size = Wide(0, pkg.uncompressed_data_size)
                 /\ w.uncompressed_names_size = Wide(0, pkg.uncompressed_names_size)
                 /\ w.number_of_checksums = Wide(0, Len(pkg.checksums))

\* the runs whose assets are larger than u32::MAX
OversizedRuns == {i \in 1..Len(manifest) : ~WLessEq(manifest[i].size, U32Max)}

BuildError == pc = "build_failed" /\ ~pkg.ok /\ pkg.kind = "err"

C15_AssetCase == BuildError /\ pkg.msg = "asset is too big" /\ Len(manifest) >= 2

C15_NamesCase == BuildError /\ pkg.msg = "uncompressed names are too long"

C15_LargestCase == pc = "built" /\ pkg.uncompressed_data_size = U32Max

\* C16 as stated: the too-many-assets check of compress_sizes rejects the
\* sizes exactly when their number is larger than 2^32-1.
C16_CountLimit ==
    (query # None /\ \A i \in 1..Len(manifest) : WLessEq(manifest[i].size, U32Max)) =>
        ((~answer.ok /\ answer.msg =
              "too many assets: size of uncompressed asset sizes is too big")
         <=> ~WLessEq(AssetCount(manifest), U32Max))

\* What the check does: it rejects the sizes exactly when four times their
\* number is larger than 2^32-1, that is from 2^30 assets on.
C16_SizesStreamLimit ==
    (query # None /\ \A i \in 1..Len(manifest) : WLessEq(manifest[i].size, U32Max)) =>
        ((~answer.ok /\ answer.msg =
              "too many assets: size of uncompressed asset sizes is too big")
         <=> ~WLessEq(AssetCount(manifest), Wide(16383, 65535)))

---------------------------------------------------------------------------
(* The codec interface called on its own: include_assets_decode/src/codec.rs *)

\* the longest buffer handed to a codec
MaxBytes == 3

Buffers == SeqsUpTo({0, 1, 16}, MaxBytes)

\* a codec holds no state: every behaviour is one call on a fresh codec value
InitCodec ==
    /\ Init
    /\ manifest = <<>>

\* codec.compress(data)
Compress(data) ==
    /\ pc = "start"
    /\ query = None
    /\ query' = [op |-> "compress", src |-> data]
    /\ answer' = compress(codec, data)
    /\ UNCHANGED <<pc, codec, tree, enumOrder, links, presented, manifest, manifest2,
                   pkg, pkg2, archive, files, table, bundle, tampered>>

\* codec.decompress_checked(src, dst)
DecompressChecked(src, dst) ==
    /\ pc = "start"
    /\ query = None
    /\ query' = [op |-> "decompress_checked", src |-> src, dst |-> dst]
    /\ answer' \in decompress_checked(codec, src, dst)
    /\ UNCHANGED <<pc, codec, tree, enumOrder, links, presented, manifest, manifest2,
                   pkg, pkg2, archive, files, table, bundle, tampered>>

\* codec.decompress_with_length(src, len)
DecompressWithLength(src, len) ==
    /\ pc = "start"
    /\ query = None
    /\ query' = [op |-> "decompress_with_length", src |-> src, len |-> len]
    /\ answer' \in decompress_with_length(codec, src, len)
    /\ UNCHANGED <<pc, codec, tree, enumOrder, links, presented, manifest, manifest2,
                   pkg, pkg2, archive, files, table, bundle, tampered>>

NextCodec ==
    \/ \E data \in Buffers : Compress(data)
    \/ \E src \in Buffers, len \in 0..MaxBytes : DecompressChecked(src, Zeros(len))
    \/ \E src \in Buffers, len \in 0..MaxBytes : DecompressWithLength(src, len)

SpecCodec == InitCodec /\ [][NextCodec]_vars

\* C17: the contract of the Uncompressed codec.  compress returns a copy of
\* its input; decompress_checked(src, dst) is Ok exactly when dst is as long
\* as src, and dst then holds src, and otherwise it is the size mismatch
\* with expected = len(dst) and actual = len(src); decompress_with_length(src,
\* n) returns a buffer of n bytes equal to src when n = len(src) and panics
\* otherwise.
C17_UncompressedContract ==
    (codec = Uncompressed /\ query # None) =>
        /\ query.op = "compress" => answer = [ok |-> TRUE, val |-> query.src]
        /\ query.op = "decompress_checked" =>
             /\ answer.ok <=> Len(query.dst) = Len(query.src)
             /\ answer.ok => answer.dst = query.src
             /\ ~answer.ok =>
                  answer.err = [type |-> "UncompressedSizeMismatch",
                                expected |-> Len(query.dst),
                                actual |-> Len(query.src)]
        /\ query.op = "decompress_with_length" =>
             /\ query.len = Len(query.src) =>
                  /\ answer.ok
                  /\ answer.val = query.src
                  /\ Len(answer.val) = query.len
             /\ query.len # Len(query.src) => (~answer.ok /\ answer.kind = "panic")

C17_Witness ==
    /\ codec = Uncompressed
    /\ query # None
    /\ query.op = "decompress_checked"
    /\ Len(query.src) = 2
    /\ Len(query.dst) = 3
    /\ ~answer.ok
    /\ answer.err.expected = 3
    /\ answer.err.actual = 2

\* a copy that succeeds, and a decompress_with_length that panics
C17_CopyCase ==
    /\ codec = Uncompressed /\ query # None /\ query.op = "decompress_with_length"
    /\ query.len = 2 /\ answer.ok /\ answer.val = query.src

C17_PanicCase ==
    /\ codec = Uncompressed /\ query # None /\ query.op = "decompress_with_length"
    /\ query.len # Len(query.src) /\ ~answer.ok

---------------------------------------------------------------------------
(* map and try_map: include_assets_decode/src/enums.rs *)

\* mapping functions handed to map and try_map, and what a call returns
MapFns == {"reverse", "first", "short"}

TotalFns == {"reverse"}

Reverse(x) == [i \in 1..Len(x) |-> x[Len(x) + 1 - i]]

Call(f, x) ==
    IF f = "reverse" THEN [ok |-> TRUE, val |-> Reverse(x)]
    ELSE IF f = "first"
    THEN IF x = <<>> THEN [ok |-> FALSE, err |-> [what |-> "empty"]]
         ELSE [ok |-> TRUE, val |-> <<x[1]>>]
    ELSE IF Len(x) >= 2 THEN [ok |-> FALSE, err |-> [what |-> "long", input |-> x]]
         ELSE [ok |-> TRUE, val |-> x]

\* a collect that calls f on every item before it reports the first error
RECURSIVE Collect_Eager(_, _, _, _, _)
Collect_Eager(items, f, i, out, calls) ==
    IF i > Len(items)
    THEN IF \E k \in 1..Len(out) : ~out[k].ok
         THEN [ok |-> FALSE, kind |-> "err",
               err |-> out[FirstIndex({k \in 1..Len(out) : ~out[k].ok})].err,
               calls |-> calls]
         ELSE [ok |-> TRUE, data |-> [k \in 1..Len(out) |-> out[k].val],
               calls |-> calls]
    ELSE IF ~items[i].ok THEN items[i]
    ELSE Collect_Eager(items, f, i + 1, Append(out, Call(f, items[i].val)),
                       Append(calls, [ordinal |-> i - 1, input |-> items[i].val]))

\* (0..N).map(item).map(f).collect() from the i-th item on: the items are
\* taken in turn, f is called on each, and an Err ends the iteration; out
\* are the values and calls the invocations of f so far
RECURSIVE Collect(_, _, _, _, _)
Collect(items, f, i, out, calls) ==
    IF i > Len(items) THEN [ok |-> TRUE, data |-> out, calls |-> calls]
    ELSE IF ~items[i].ok THEN items[i]
    ELSE LET r == Call(f, items[i].val)
             called == Append(calls, [ordinal |-> i - 1, input |-> items[i].val])
         IN  IF ~r.ok
             THEN [ok |-> FALSE, kind |-> "err", err |-> r.err, calls |-> called]
             ELSE Collect(items, f, i + 1, Append(out, r.val), called)

\* (0..E::CHECKSUMS.len()).map(|i| self.lookup(i))
ArchiveItems(E, data) ==
    [k \in 1..Len(E.CHECKSUMS) |-> lookup(E, data, k - 1)]

\* (0..E::CHECKSUMS.len()).map(|i| &self.data[i]) of an EnumMap
TableItems(E, data) ==
    [k \in 1..Len(E.CHECKSUMS) |->
        IF k <= Len(data) THEN [ok |-> TRUE, val |-> data[k]]
        ELSE [ok |-> FALSE, kind |-> "panic", msg |-> "index out of bounds"]]

\* EnumArchive::map(f), f total
EnumArchive_map(E, data, f) == Collect(ArchiveItems(E, data), f, 1, <<>>, <<>>)

\* EnumArchive::try_map(f)
EnumArchive_try_map(E, data, f) == Collect(ArchiveItems(E, data), f, 1, <<>>, <<>>)

\* EnumMap::map(f), f total
EnumMap_map(E, data, f) == Collect(TableItems(E, data), f, 1, <<>>, <<>>)

\* EnumMap::try_map(f)
EnumMap_try_map(E, data, f) == Collect(TableItems(E, data), f, 1, <<>>, <<>>)

\* the EnumMap that a successful map or try_map returns; made_from and
\* written tell where it comes from and whether index_mut wrote to it
EnumMapOf(r, made_from) ==
    [ok |-> TRUE, data |-> r.data, made_from |-> made_from, written |-> FALSE]

\* archive.map(f)
Map(f) ==
    /\ pc = "loaded"
    /\ LET r == EnumArchive_map(bundle, archive.data, f)
       IN  /\ query' = [op |-> "map", f |-> f, on |-> "archive",
                        items |-> ArchiveItems(bundle, archive.data)]
           /\ answer' = r
           /\ table' = IF r.ok THEN EnumMapOf(r, "archive") ELSE table
    /\ UNCHANGED <<pc, codec, tree, enumOrder, links, presented, manifest, manifest2,
                   pkg, pkg2, archive, files, bundle, tampered>>

\* archive.try_map(f)
TryMap(f) ==
    /\ pc = "loaded"
    /\ LET r == EnumArchive_try_map(bundle, archive.data, f)
       IN  /\ query' = [op |-> "try_map", f |-> f, on |-> "archive",
                        items |-> ArchiveItems(bundle, archive.data)]
           /\ answer' = r
           /\ table' = IF r.ok THEN EnumMapOf(r, "archive") ELSE table
    /\ UNCHANGED <<pc, codec, tree, enumOrder, links, presented, manifest, manifest2,
                   pkg, pkg2, archive, files, bundle, tampered>>

\* enum_map.map(f) on the EnumMap made from the archive
MapTable(f) ==
    /\ pc = "loaded"
    /\ table.ok
    /\ table.made_from = "archive"
    /\ LET r == EnumMap_map(bundle, table.data, f)
       IN  /\ query' = [op |-> "map", f |-> f, on |-> "enum_map",
                        items |-> TableItems(bundle, table.data)]
           /\ answer' = r
           /\ table' = IF r.ok THEN EnumMapOf(r, "enum_map") ELSE table
    /\ UNCHANGED <<pc, codec, tree, enumOrder, links, presented, manifest, manifest2,
                   pkg, pkg2, archive, files, bundle, tampered>>

\* enum_map.try_map(f) on the EnumMap made from the archive
TryMapTable(f) ==
    /\ pc = "loaded"
    /\ table.ok
    /\ table.made_from = "archive"
    /\ LET r == EnumMap_try_map(bundle, table.data, f)
       IN  /\ query' = [op |-> "try_map", f |-> f, on |-> "enum_map",
                        items |-> TableItems(bundle, table.data)]
           /\ answer' = r
           /\ table' = IF r.ok THEN EnumMapOf(r, "enum_map") ELSE table
    /\ UNCHANGED <<pc, codec, tree, enumOrder, links, presented, manifest, manifest2,
                   pkg, pkg2, archive, files, bundle, tampered>>

\* &enum_map[e] for the variant e of ordinal i
IndexTable(i) ==
    /\ pc = "loaded"
    /\ table.ok
    /\ i < Len(bundle.CHECKSUMS)
    /\ query' = [op |-> "index", on |-> "enum_map", ordinal |-> i]
    /\ answer' = [ok |-> TRUE, val |-> table.data[i + 1]]
    /\ UNCHANGED <<pc, codec, tree, enumOrder, links, presented, manifest, manifest2,
                   pkg, pkg2, archive, files, table, bundle, tampered>>

\* an index_mut whose write reaches every entry
index_mut_All(data, i, v) == [k \in 1..Len(data) |-> v]

\* *enum_map.index_mut(e) = v: &mut self.data[e.index()]
index_mut(data, i, v) == [data EXCEPT ![i + 1] = v]

\* enum_map[e] = v for the variant e of ordinal i, once for each EnumMap
IndexMut(i, v) ==
    /\ pc = "loaded"
    /\ table.ok
    /\ ~table.written
    /\ i < Len(bundle.CHECKSUMS)
    /\ query' = [op |-> "index_mut", on |-> "enum_map", ordinal |-> i,
                 value |-> v, before |-> table.data]
    /\ table' = [table EXCEPT !.data = index_mut(table.data, i, v), !.written = TRUE]
    /\ UNCHANGED <<pc, codec, tree, enumOrder, links, presented, manifest, manifest2,
                   pkg, pkg2, archive, files, bundle, tampered, answer>>

\* the values that index_mut writes
WrittenValues == { <<9>> }

NextMap ==
    \/ Derive
    \/ EnumLoad
    \/ \E i \in 0..(MaxAssets - 1) : Index(i)
    \/ \E f \in TotalFns : Map(f)
    \/ \E f \in MapFns : TryMap(f)
    \/ \E f \in TotalFns : MapTable(f)
    \/ \E f \in MapFns : TryMapTable(f)
    \/ \E i \in 0..(MaxAssets - 1) : IndexTable(i)
    \/ \E i \in 0..(MaxAssets - 1), v \in WrittenValues : IndexMut(i, v)

SpecMap == InitEnum /\ [][NextMap]_vars

\* C18: map and try_map on an EnumArchive and on an EnumMap.  map(f) returns
\* a table of exactly N values, the i-th being f of the i-th asset (or entry),
\* f being called in the order of the ordinals 0..N-1; try_map(f) returns the
\* same table when every call succeeds, and otherwise the error of the
\* smallest failing ordinal, without calling f on a later ordinal and without
\* a partial table.
C18_MapAndTryMap ==
    (query # None /\ query.op \in {"map", "try_map"}) =>
        LET N == Len(bundle.CHECKSUMS)
            items == query.items
            results == [k \in 1..Len(items) |-> Call(query.f, items[k].val)]
            failing == {k \in 1..Len(items) : ~results[k].ok}
            CallsUpTo(m) == [k \in 1..m |-> [ordinal |-> k - 1, input |-> items[k].val]]
        IN  /\ Len(items) = N
            /\ \A k \in 1..N : items[k].ok
            /\ query.on = "archive" => \A k \in 1..N : items[k].val = files[k]
            /\ query.op = "map" => failing = {}
            /\ failing = {} =>
                 /\ answer.ok
                 /\ Len(answer.data) = N
                 /\ \A k \in 1..N : answer.data[k] = results[k].val
                 /\ answer.calls = CallsUpTo(N)
            /\ failing # {} =>
                 /\ ~answer.ok
                 /\ answer.err = results[FirstIndex(failing)].err
                 /\ answer.calls = CallsUpTo(FirstIndex(failing))
                 /\ "data" \notin DOMAIN answer

C18_Witness ==
    /\ query # None
    /\ query.op = "try_map"
    /\ query.on = "archive"
    /\ Len(files) = 3
    /\ ~answer.ok
    /\ Len(answer.calls) = 2
    /\ Call(query.f, files[3]).ok = FALSE

\* a map of an EnumMap, and a try_map that succeeds
C18_TableCase ==
    /\ query # None /\ query.op = "map" /\ query.on = "enum_map"
    /\ Len(files) = 3 /\ answer.ok /\ answer.data[1] # files[1]

C18_AllSucceedCase ==
    /\ query # None /\ query.op = "try_map" /\ query.f = "first"
    /\ Len(files) = 3 /\ answer.ok

---------------------------------------------------------------------------
(* The public operations of both kinds of loaded archive *)

\* archive.number_of_assets()
NumberOfAssets ==
    /\ pc = "loaded"
    /\ query' = [op |-> "number_of_assets"]
    /\ answer' = number_of_assets(archive)
    /\ UNCHANGED <<pc, codec, tree, enumOrder, links, presented, manifest, manifest2,
                   pkg, pkg2, archive, files, table, bundle, tampered>>

\* archive.assets()
ListAssets ==
    /\ pc = "loaded"
    /\ query' = [op |-> "assets"]
    /\ answer' = NamedArchive_assets(archive)
    /\ UNCHANGED <<pc, codec, tree, enumOrder, links, presented, manifest, manifest2,
                   pkg, pkg2, archive, files, table, bundle, tampered>>

\* archive.names()
ListNames ==
    /\ pc = "loaded"
    /\ query' = [op |-> "names"]
    /\ answer' = NamedArchive_names(archive)
    /\ UNCHANGED <<pc, codec, tree, enumOrder, links, presented, manifest, manifest2,
                   pkg, pkg2, archive, files, table, bundle, tampered>>

InitApi == InitPkg \/ InitEnum

\* a program holds a named archive or an enum archive
NextApi ==
    \/ /\ files = <<>>
       /\ bundle = None
       /\ \/ Build
          \/ Load
          \/ \E name \in Names : Get(name)
          \/ \E name \in Names : Contains(name)
          \/ \E name \in Names : IndexName(name)
          \/ NumberOfAssets
          \/ ListAssets
          \/ ListNames
    \/ /\ manifest = <<>>
       /\ pkg = None
       /\ NextMap

SpecApi == InitApi /\ [][NextApi]_vars

\* what the operation of the last query returns on the archive as it is now
ArchiveAnswer(q) ==
    IF "name" \in DOMAIN q THEN NamedAnswer(q)
    ELSE IF q.op = "number_of_assets" THEN number_of_assets(archive)
    ELSE IF q.op = "assets" THEN NamedArchive_assets(archive)
    ELSE IF q.op = "names" THEN NamedArchive_names(archive)
    ELSE IF q.op = "index" THEN lookup(bundle, archive.data, q.ordinal)
    ELSE IF q.op = "map" THEN EnumArchive_map(bundle, archive.data, q.f)
    ELSE EnumArchive_try_map(bundle, archive.data, q.f)

\* the last query was made on the archive itself
OnArchive(q) == q # None /\ ("on" \notin DOMAIN q \/ q.on = "archive")

\* C19 (state part): the answer to the last query on the archive is the one
\* that the same query gives on the archive now, and after an index_mut
\* write the EnumMap differs from the one before in the addressed entry only.
C19_SameAnswers ==
    pc = "loaded" =>
        /\ OnArchive(query) => answer = ArchiveAnswer(query)
        /\ (query # None /\ query.op = "index_mut") =>
             /\ Len(table.data) = Len(query.before)
             /\ table.data[query.ordinal + 1] = query.value
             /\ \A k \in 1..Len(table.data) :
                  k # query.ordinal + 1 => table.data[k] = query.before[k]

\* C19 (step part): no operation on a loaded archive changes its data
\* buffer or its range table, or the package or enum it was loaded from.
C19_ArchiveUnchanged ==
    pc = "loaded" =>
        /\ pc' = "loaded"
        /\ archive' = archive
        /\ pkg' = pkg
        /\ bundle' = bundle

\* C19: loaded archives are immutable.  After a successful load no public
\* operation (named: get, contains, number_of_assets, assets, names, index;
\* ordinal: index, map, try_map, and index_mut on an EnumMap made from the
\* archive) changes the data buffer or the range table of the archive, every
\* repeated query returns the same result, and an index_mut write changes the
\* entry of the addressed ordinal only.
C19_Immutable == []C19_SameAnswers /\ [][C19_ArchiveUnchanged]_vars

C19_Witness ==
    /\ pc = "loaded"
    /\ bundle.ok
    /\ Len(files) = 3
    /\ query # None
    /\ query.op = "index_mut"
    /\ query.ordinal = 1
    /\ table.written
    /\ table.data[2] # query.before[2]
    /\ table.data[1] = query.before[1]

\* a named archive that answered a query
C19_NamedCase ==
    /\ pc = "loaded" /\ pkg.ok /\ Len(manifest) >= 2
    /\ query # None /\ query.op = "assets"

---------------------------------------------------------------------------
(* Properties of the symbolic link rules (checked under SpecDir) *)

\* an entry as the walk takes it: a link is its target when links are followed
Taken(e, follow) == IF e.kind = "symlink" /\ follow THEN e.target ELSE e

\* the files below dir with their relative paths and contents, links being
\* followed or not taken at all
RECURSIVE FilesBelow(_, _, _)
FilesBelow(dir, prefix, follow) ==
    UNION {LET e == Taken(dir.children[n], follow)
               p == Append(prefix, n)
           IN  IF e.kind = "file" THEN {[name |-> PathString(p), data |-> e.data]}
               ELSE IF e.kind = "dir" THEN FilesBelow(e, p, follow)
               ELSE {} :
             n \in DOMAIN dir.children}

\* a symbolic link is met on a walk that does not follow links
RECURSIVE HasSymlink(_)
HasSymlink(dir) ==
    \E n \in DOMAIN dir.children :
        \/ dir.children[n].kind = "symlink"
        \/ dir.children[n].kind = "dir" /\ HasSymlink(dir.children[n])

BuildAttempted == pc \in {"built", "build_failed", "rebuilt"}

\* the option is absent or one of the three rules
KnownOption ==
    ~links.some \/ (links.str /\ links.value \in {"forbid", "ignore", "follow"})

\* the rule that the option stands for
RuleOf(lit) == IF lit.some THEN lit.value ELSE "forbid"

\* the asset list is exactly the set S of files
ListsExactly(assets, S) ==
    /\ assets.ok
    /\ {assets.val[i] : i \in 1..Len(assets.val)} = S
    /\ Len(assets.val) = Cardinality(S)

\* C20: the symbolic link rules of read_dir.  With "forbid", and without the
\* option, a symbolic link met on the walk makes read_dir return an error
\* and the build fail without an asset list; with "ignore" every link is
\* skipped and the assets are exactly the regular files; with "follow" a link
\* stands for the file or directory it points to; every other value of the
\* option is rejected.
C20_SymlinkRules ==
    BuildAttempted =>
        LET assets == read_dir(tree, RuleOf(links), enumOrder)
        IN  /\ ~KnownOption =>
                 /\ pc = "build_failed"
                 /\ ~parse_symlink_rules(links).ok
                 /\ pkg = parse_symlink_rules(links)
                 /\ pkg.kind = "panic"
            /\ (KnownOption /\ RuleOf(links) = "forbid") =>
                 /\ parse_symlink_rules(links) = [ok |-> TRUE, val |-> "forbid"]
                 /\ HasSymlink(tree) =>
                      /\ ~assets.ok
                      /\ assets.kind = "err"
                      /\ assets.msg = "Encountered a symbolic link"
                      /\ "val" \notin DOMAIN assets
                      /\ pc = "build_failed"
                      /\ pkg.err = assets
                 /\ ~HasSymlink(tree) =>
                      ListsExactly(assets, FilesBelow(tree, <<>>, FALSE))
            /\ (KnownOption /\ RuleOf(links) = "ignore") =>
                 /\ ListsExactly(assets, FilesBelow(tree, <<>>, FALSE))
                 /\ pc # "build_failed" => manifest = assets.val
            /\ (KnownOption /\ RuleOf(links) = "follow") =>
                 /\ ListsExactly(assets, FilesBelow(tree, <<>>, TRUE))
                 /\ pc # "build_failed" => manifest = assets.val

C20_Witness ==
    /\ pc = "build_failed"
    /\ ~links.some
    /\ HasSymlink(tree)
    /\ FilesBelow(tree, <<>>, FALSE) # {}
    /\ pkg.err.msg = "Encountered a symbolic link"

\* builds that skip a link beside a regular file, that follow a link to a
\* directory, and that reject the option
C20_IgnoreCase ==
    /\ pc = "built" /\ links.some /\ links.value = "ignore"
    /\ HasSymlink(tree) /\ Len(manifest) >= 2

C20_FollowCase ==
    /\ pc = "built" /\ links.some /\ links.value = "follow"
    /\ tree.children[<<97>>].kind = "symlink"
    /\ Len(manifest) >= 3

C20_RejectCase == pc = "build_failed" /\ links.some /\ links.value = "skip"

C20_NotStringCase == pc = "build_failed" /\ links.some /\ ~links.str

---------------------------------------------------------------------------
(* decompress_ranges called on a sizes stream of given lengths:
   include_assets_decode/src/common.rs *)

\* the lengths a sizes stream carries
StreamLengths == {0, 3, 5, 300}

\* the sizes that compress_sizes is handed for assets of the lengths
SizesOf(lengths) == [i \in 1..Len(lengths) |-> [name |-> <<>>, size |-> lengths[i]]]

\* decompress_ranges(codec, compressed_lengths, number_of_entries) on the
\* sizes stream that compress_sizes makes of the lengths
DecompressRanges(lengths, number_of_entries) ==
    /\ pc = "start"
    /\ query = None
    /\ query' = [op |-> "decompress_ranges", lengths |-> lengths,
                 number_of_entries |-> number_of_entries]
    /\ answer' \in decompress_ranges(codec, compress_sizes(codec, SizesOf(lengths)).val,
                                     number_of_entries)
    /\ UNCHANGED <<pc, codec, tree, enumOrder, links, presented, manifest, manifest2,
                   pkg, pkg2, archive, files, table, bundle, tampered>>

NextRanges ==
    \E lengths \in SeqsUpTo(StreamLengths, MaxAssets), n \in 0..MaxAssets :
        DecompressRanges(lengths, n)

SpecRanges == InitCodec /\ [][NextRanges]_vars

\* C23: range reconstruction.  For the lengths L[0..n) that the sizes stream
\* carries, decompress_ranges returns n ranges, the first starting at 0, each
\* ending at its start plus its length, and each next one starting where the
\* one before it ends (the lengths here sum to less than 2^32).
C23_RangeReconstruction ==
    (query # None /\ query.number_of_entries = Len(query.lengths)) =>
        /\ answer.ok
        /\ Len(answer.val) = query.number_of_entries
        /\ \A i \in 1..Len(answer.val) :
             /\ answer.val[i].start = (IF i = 1 THEN 0 ELSE answer.val[i - 1].end)
             /\ answer.val[i].end = answer.val[i].start + query.lengths[i]

C23_Witness ==
    /\ query # None
    /\ query.lengths = <<5, 0, 3>>
    /\ query.number_of_entries = 3
    /\ answer.ok
    /\ answer.val = <<[start |-> 0, end |-> 5], [start |-> 5, end |-> 5],
                      [start |-> 5, end |-> 8]>>

\* no entries give no ranges; a stream of another number of entries than
\* asked for is not decoded
C23_EmptyCase ==
    /\ query # None /\ query.lengths = <<>> /\ query.number_of_entries = 0
    /\ answer.ok /\ answer.val = <<>>

C23_CountCase ==
    /\ query # None /\ query.number_of_entries # Len(query.lengths)
    /\ ~answer.ok /\ answer.kind = "panic"

\* The sizes stream of lengths of more than one byte (checked under
\* SpecRanges): entry i holds the two low bytes of the i-th length first.
SizesStreamOfLengths ==
    query # None =>
        \A d \in decompress_with_length(
                     codec, compress_sizes(codec, SizesOf(query.lengths)).val,
                     4 * Len(query.lengths)) :
            /\ d.ok
            /\ \A i \in 1..Len(query.lengths) :
                 SubSeq(d.val, 4 * i - 3, 4 * i)
                   = <<query.lengths[i] % 256, query.lengths[i] \div 256, 0, 0>>

---------------------------------------------------------------------------
(* Properties of the ranges of large packages (checked under SpecLimits) *)

RangesDecoded == pc \in {"loaded", "load_failed"}

\* the sum of the first k entries of the sizes stream, as a number
PrefixSum(runs, k) == WSum(SubSeq(Steps(runs), 1, k))

\* C24: range overflow.  decompress_ranges never returns a range end that
\* wrapped around modulo 2^32: every end is the sum of the lengths up to it;
\* when the lengths sum to more than 2^32-1 the load aborts; and it never
\* aborts so on a package that the builder returned, whose data the builder
\* found to be at most 2^32-1 bytes.
C24_RangeOverflow ==
    RangesDecoded =>
        /\ archive.ok =>
             /\ Len(archive.ends) = Len(Steps(manifest))
             /\ \A k \in 1..Len(archive.ends) :
                  /\ archive.ends[k] = PrefixSum(manifest, k)
                  /\ WLessEq(archive.ends[k], U32Max)
        /\ ~WLessEq(DataLength(manifest), U32Max) =>
             /\ ~archive.ok
             /\ archive.kind = "panic"
             /\ archive.msg = "overflow should have been caught during construction at compile time"
        /\ tampered = "no" =>
             /\ pkg.ok
             /\ archive.ok
             /\ WLessEq(DataLength(manifest), U32Max)

C24_Witness ==
    /\ pc = "load_failed"
    /\ tampered = "foreign"
    /\ Len(manifest) = 2
    /\ manifest[1].size = Wide(32768, 0)
    /\ manifest[2].size = Wide(32768, 0)
    /\ prepare_named_archive_wide(manifest).msg = "too much data"

\* the largest package that the builder returns loads
C24_LargestCase ==
    /\ pc = "loaded"
    /\ tampered = "no"
    /\ pkg.uncompressed_data_size = U32Max
    /\ archive.ends[Len(archive.ends)] = U32Max

---------------------------------------------------------------------------
(* Properties of the streams of a built package (checked under Spec) *)

\* byte k (counted from 0, the least significant first) of a length
ByteOf(n, k) ==
    IF k = 0 THEN n % 256
    ELSE IF k = 1 THEN (n \div 256) % 256
    ELSE IF k = 2 THEN (n \div 65536) % 256
    ELSE (n \div 16777216) % 256

\* the length of the data of the assets before the i-th
DataBefore(m, i) == Len(Concat([j \in 1..(i - 1) |-> m[j].data]))

Built == pc \in {"built", "loaded", "load_failed"}

\* C25: the layout of the sizes stream.  The sizes stream of a package of n
\* assets decompresses to exactly 4 * n bytes, the four bytes of entry i
\* being the length of the i-th asset of the manifest, least significant
\* byte first; the i-th name of the names stream and the i-th piece of the
\* data stream belong to that same asset; and decompress_ranges recovers
\* exactly those lengths.
C25_SizesStreamLayout ==
    Built =>
        LET n == Len(manifest)
        IN  /\ \A d \in decompress_with_length(codec, pkg.compressed_sizes, 4 * n) :
                 /\ d.ok
                 /\ Len(d.val) = 4 * n
                 /\ \A i \in 1..n : \A k \in 0..3 :
                      d.val[4 * (i - 1) + k + 1] = ByteOf(Len(manifest[i].data), k)
            /\ \A d \in decompress_with_length(codec, pkg.compressed_sizes, 4 * n + 1) :
                 ~d.ok
            /\ n >= 1 =>
                 \A names \in decompress_names(codec, pkg.compressed_names,
                                               pkg.uncompressed_names_size) :
                     /\ names.ok
                     /\ \A i \in 1..n : names.val[i] = manifest[i].name
            /\ \A d \in decompress_with_length(codec, pkg.compressed_data,
                                               pkg.uncompressed_data_size) :
                 /\ d.ok
                 /\ \A i \in 1..n :
                      SubSeq(d.val, DataBefore(manifest, i) + 1,
                             DataBefore(manifest, i) + Len(manifest[i].data))
                        = manifest[i].data
            /\ \A r \in decompress_ranges(codec, pkg.compressed_sizes, n) :
                 /\ r.ok
                 /\ Len(r.val) = n
                 /\ \A i \in 1..n :
                      r.val[i].end - r.val[i].start = Len(manifest[i].data)

C25_Witness ==
    /\ pc = "loaded"
    /\ Len(manifest) = 3
    /\ Len(manifest[1].data) = 2
    /\ Len(manifest[2].data) = 0
    /\ Len(manifest[3].data) = 1
    /\ \E d \in decompress_with_length(codec, pkg.compressed_sizes, 12) :
         d.ok /\ d.val = <<2, 0, 0, 0, 0, 0, 0, 0, 1, 0, 0, 0>>


\* where the i-th name starts in the names stream (counted from 1): after
\* the names before it and one byte for each of them
NameStart(m, i) == Len(Concat([j \in 1..(i - 1) |-> m[j].name])) + (i - 1) + 1

RECURSIVE SumOfNameLengths(_)
SumOfNameLengths(m) ==
    IF m = <<>> THEN 0 ELSE Len(Head(m).name) + SumOfNameLengths(Tail(m))

\* C26: the layout of the names stream.  The names stream of a package of
\* n >= 1 assets decompresses to the names of the manifest in order, one 0x00
\* byte between each two and none before the first or after the last; the
\* declared uncompressed_names_size is the sum of the name lengths plus n - 1,
\* and 0 for no assets.
C26_NamesStreamLayout ==
    Built =>
        LET n == Len(manifest)
            size == pkg.uncompressed_names_size
        IN  /\ size = (IF n = 0 THEN 0 ELSE SumOfNameLengths(manifest) + n - 1)
            /\ \A d \in decompress_with_length(codec, pkg.compressed_names, size) :
                 /\ d.ok
                 /\ Len(d.val) = size
                 /\ \A i \in 1..n :
                      /\ SubSeq(d.val, NameStart(manifest, i),
                                NameStart(manifest, i) + Len(manifest[i].name) - 1)
                           = manifest[i].name
                      /\ i < n =>
                           d.val[NameStart(manifest, i) + Len(manifest[i].name)] = 0
                 /\ Cardinality({k \in 1..size : d.val[k] = 0}) = (IF n = 0 THEN 0 ELSE n - 1)

C26_Witness ==
    /\ pc = "built"
    /\ Len(manifest) = 3
    /\ manifest[1].name = <<97, 47, 98>>
    /\ manifest[2].name = <<>>
    /\ manifest[3].name = <<98>>
    /\ pkg.uncompressed_names_size = 6
    /\ \E d \in decompress_with_length(codec, pkg.compressed_names, 6) :
         d.ok /\ d.val = <<97, 47, 98, 0, 0, 98>>

\* a package of no assets declares a names stream of no bytes
C26_EmptyCase == pc = "built" /\ manifest = <<>> /\ pkg.uncompressed_names_size = 0


\* the package that include_dir! emits for the manifest
Emitted == CompressedNamedArchive(codec, pkg)

\* C27 as stated, for named packages: the package carries one checksum for
\* each asset, in the order of the names, and checksum i is the digest of
\* the bytes of asset i as the builder was given them.
C27_ChecksumsOfAssets ==
    Built =>
        /\ Len(Emitted.checksums) = Len(manifest)
        /\ \A i \in 1..Len(manifest) :
             Emitted.checksums[i] = compute_checksum(manifest[i].data)

\* What the named package carries: one checksum for each asset in the order
\* of the names, checksum i being the digest of the 64 bytes of the digest of
\* asset i; the digests of the assets are those of the archive that
\* prepare_named_archive returns.
C27_NamedChecksumsOfDigests ==
    Built =>
        /\ Len(Emitted.checksums) = Len(manifest)
        /\ Len(pkg.checksums) = Len(manifest)
        /\ \A i \in 1..Len(manifest) :
             /\ pkg.checksums[i] = compute_checksum(manifest[i].data)
             /\ Emitted.checksums[i]
                  = compute_checksum(as_ref(compute_checksum(manifest[i].data)))
             /\ Emitted.checksums[i] # compute_checksum(manifest[i].data)

\* The checksums of an ordinal package (checked under SpecEnum): one for each
\* file in declaration order, checksum i being the digest of the bytes of
\* file i.
C27_OrdinalChecksumsOfAssets ==
    (pc = "derived" /\ tampered = "no") =>
        /\ Len(bundle.CHECKSUMS) = Len(files)
        /\ \A i \in 1..Len(files) : bundle.CHECKSUMS[i] = compute_checksum(files[i])

---------------------------------------------------------------------------
(* Properties of the end offsets (checked under SpecEnum) *)

\* the lengths of the first i files, summed
RECURSIVE LengthUpTo(_, _)
LengthUpTo(fs, i) == IF i = 0 THEN 0 ELSE LengthUpTo(fs, i - 1) + Len(fs[i])

Derived == pc \in {"derived", "loaded", "load_failed"}

\* C28: the end offsets of an ordinal package.  There is one end offset for
\* each file, in declaration order, each the summed length of the files up
\* to and including its own, so that they never decrease; the loaded data
\* buffer is as long as the last end offset, or empty without assets; and
\* lookup(i) is the data from the end offset of i - 1 (from 0 for the first)
\* to the end offset of i.
C28_OrdinalOffsets ==
    Derived =>
        LET end == bundle.DATA_END_OFFSETS
            n == Len(files)
        IN  /\ Len(end) = n
            /\ \A i \in 1..n : end[i] = LengthUpTo(files, i)
            /\ \A i \in 2..n : end[i - 1] <= end[i]
            /\ pc = "loaded" =>
                 /\ Len(archive.data) = (IF n = 0 THEN 0 ELSE end[n])
                 /\ \A i \in 0..(n - 1) :
                      lookup(bundle, archive.data, i) =
                        [ok |-> TRUE,
                         val |-> SubSeq(archive.data,
                                        (IF i = 0 THEN 0 ELSE end[i]) + 1, end[i + 1])]
                 /\ (query # None /\ query.op = "index") =>
                      answer = lookup(bundle, archive.data, query.ordinal)

C28_Witness ==
    /\ pc = "loaded"
    /\ files = <<<<2, 1>>, <<>>, <<1>>>>
    /\ bundle.DATA_END_OFFSETS = <<2, 2, 3>>
    /\ Len(archive.data) = 3
    /\ query # None
    /\ query.op = "index"
    /\ query.ordinal = 2
    /\ answer = [ok |-> TRUE, val |-> <<1>>]

\* an enum without variants loads to an empty buffer
C28_EmptyCase == pc = "loaded" /\ files = <<>> /\ archive.data = <<>>

---------------------------------------------------------------------------
(* Properties of the enumerating accessors (checked under SpecApi) *)

\* a named archive was loaded from the package the builder made
NamedLoaded == pc = "loaded" /\ pkg # None /\ tampered = "no"

\* C29: enumeration consistency of a named archive loaded from a
\* builder-produced package of n assets.  number_of_assets() is n; names()
\* yields the names of the manifest and nothing else; assets() yields n
\* pairs, exactly one per name of the manifest, holding the bytes that get
\* returns for the name; contains is true for the names of the manifest and
\* for no other name.  The answers the accessors gave are these values.
C29_EnumerationConsistency ==
    NamedLoaded =>
        /\ number_of_assets(archive) = Len(manifest)
        /\ NamedArchive_names(archive) = ManifestNames
        /\ Cardinality(NamedArchive_names(archive)) = Len(manifest)
        /\ Cardinality(NamedArchive_assets(archive)) = Len(manifest)
        /\ \A i \in 1..Len(manifest) :
             LET pairs == {p \in NamedArchive_assets(archive) :
                             p.name = manifest[i].name}
             IN  /\ Cardinality(pairs) = 1
                 /\ \A p \in pairs :
                      /\ NamedArchive_get(archive, p.name).some
                      /\ p.data = NamedArchive_get(archive, p.name).val
                      /\ p.data = manifest[i].data
        /\ \A p \in NamedArchive_assets(archive) : p.name \in ManifestNames
        /\ {name \in Names : NamedArchive_contains(archive, name)} = ManifestNames
        /\ (query # None /\ query.op = "number_of_assets") =>
             answer = Len(manifest)
        /\ (query # None /\ query.op = "names") => answer = ManifestNames
        /\ (query # None /\ query.op = "assets") =>
             answer = {[name |-> manifest[i].name, data |-> manifest[i].data] :
                         i \in 1..Len(manifest)}
        /\ (query # None /\ query.op = "contains") =>
             answer = (query.name \in ManifestNames)

\* assets() was called on an archive of two assets of different contents,
\* one of them empty
C29_Witness ==
    /\ NamedLoaded
    /\ manifest = << [name |-> <<97>>, data |-> <<1>>],
                     [name |-> <<97, 47, 98>>, data |-> <<>>] >>
    /\ query # None
    /\ query.op = "assets"
    /\ answer = { [name |-> <<97>>, data |-> <<1>>],
                  [name |-> <<97, 47, 98>>, data |-> <<>>] }

\* number_of_assets() was called on an archive of MaxAssets assets
C29_CountCase ==
    /\ NamedLoaded
    /\ Len(manifest) = MaxAssets
    /\ query # None
    /\ query.op = "number_of_assets"
    /\ answer = MaxAssets

\* contains answered false for a name that is not in the manifest
C29_ContainsCase ==
    /\ NamedLoaded
    /\ query # None
    /\ query.op = "contains"
    /\ query.name \notin ManifestNames
    /\ answer = FALSE

---------------------------------------------------------------------------
(* Properties of the ranges of a loaded named archive (checked under SpecPkg) *)

\* the range lies within a buffer of the given length
InBounds(range, length) ==
    /\ 0 <= range.start
    /\ range.start <= range.end
    /\ range.end <= length

\* C30: bounds safety of lookups.  In every named archive that
\* NamedArchive::load returned, from the package the builder made or from
\* one that differs from it, every range of the table satisfies
\* start <= end <= length of the data buffer, so that get, assets and the
\* indexing accessor slice within the buffer: what they return for a name
\* of the table is the end - start bytes of the buffer from start on.
C30_LookupBounds ==
    pc = "loaded" =>
        /\ \A name \in DOMAIN archive.ranges :
             /\ InBounds(archive.ranges[name], Len(archive.data))
             /\ NamedArchive_get(archive, name).some
             /\ Len(NamedArchive_get(archive, name).val)
                  = archive.ranges[name].end - archive.ranges[name].start
             /\ \A k \in 1..Len(NamedArchive_get(archive, name).val) :
                  NamedArchive_get(archive, name).val[k]
                    = archive.data[archive.ranges[name].start + k]
             /\ NamedArchive_index(archive, name).ok
             /\ NamedArchive_index(archive, name).val
                  = NamedArchive_get(archive, name).val
        /\ \A p \in NamedArchive_assets(archive) :
             /\ Len(p.data) = archive.ranges[p.name].end - archive.ranges[p.name].start
             /\ p.data = NamedArchive_get(archive, p.name).val
        /\ \A i \in 1..Len(archive.ranges_vec) :
             InBounds(archive.ranges_vec[i], Len(archive.data))
        /\ (query # None /\ query.op \in {"get", "index"}
              /\ query.name \in DOMAIN archive.ranges) =>
             Len(answer.val) <= Len(archive.data)

\* a package whose sizes stream is not the builder's was loaded: the byte of
\* asset "a" is given to asset "b", and get("b") returned it
C30_Witness ==
    /\ pc = "loaded"
    /\ tampered = "moved"
    /\ manifest = << [name |-> <<97>>, data |-> <<1>>],
                     [name |-> <<98>>, data |-> <<>>] >>
    /\ archive.ranges[<<97>>] = [start |-> 0, end |-> 0]
    /\ archive.ranges[<<98>>] = [start |-> 0, end |-> 1]
    /\ query # None
    /\ query.op = "get"
    /\ query.name = <<98>>
    /\ answer = [some |-> TRUE, val |-> <<1>>]

\* the package the builder made was loaded, its last range ending where the
\* data buffer ends
C30_BuilderCase ==
    /\ pc = "loaded"
    /\ tampered = "no"
    /\ Len(manifest) = MaxAssets
    /\ Len(archive.data) = MaxAssets
    /\ archive.ranges_vec[MaxAssets].end = Len(archive.data)

\* a package whose sizes do not add up to the length of the data is not loaded
C30_RejectedCase ==
    /\ pc = "load_failed"
    /\ tampered = "sizes"
    /\ archive.msg = "the final range should end where the data ends"

---------------------------------------------------------------------------
(* Codec options: include_assets_encode/src/common.rs (parse_codec) *)

\* the cargo features of the build: the codecs that are compiled in
Features == SUBSET {"zstd", "lz4", "deflate"}

\* syn::Lit values of an option.  An integer literal is its base-10 digits
\* and its sign (syn reads a minus sign in front of an integer literal as
\* part of the literal); a string literal is its value; any other literal
\* is given by its kind
NoLit == [some |-> FALSE]
LitStr(s) == [some |-> TRUE, kind |-> "Str", value |-> s]
LitInt(neg, digits) == [some |-> TRUE, kind |-> "Int", neg |-> neg, digits |-> digits]
LitFloat == [some |-> TRUE, kind |-> "Float"]
LitBool == [some |-> TRUE, kind |-> "Bool"]

\* the digit strings of the integer literals: 0, 7, 10, 255, 256, 2^31 - 1, 2^31
LevelDigits ==
    { <<0>>, <<7>>, <<1, 0>>, <<2, 5, 5>>, <<2, 5, 6>>,
      <<2, 1, 4, 7, 4, 8, 3, 6, 4, 7>>, <<2, 1, 4, 7, 4, 8, 3, 6, 4, 8>> }

CompressionOptions ==
    {NoLit, LitInt(FALSE, <<4>>), LitBool} \cup
    {LitStr(s) : s \in {"uncompressed", "lz4", "deflate", "zstd", "gzip", "LZ4"}}

LevelOptions ==
    {NoLit, LitStr("9"), LitFloat} \cup
    {LitInt(neg, digits) : neg \in BOOLEAN, digits \in LevelDigits}

U8Max == 255
I32Max == 2147483647
I32Min == (0 - 2147483647) - 1

\* <u8 as FromStr>::from_str on the digits of a literal: no sign is
\* accepted, and each step is checked_mul(10) followed by checked_add(digit)
RECURSIVE u8_from_digits(_, _)
u8_from_digits(acc, digits) ==
    IF digits = <<>> THEN [ok |-> TRUE, val |-> acc]
    ELSE IF acc > (U8Max - digits[1]) \div 10 THEN [ok |-> FALSE, err |-> "PosOverflow"]
    ELSE u8_from_digits(acc * 10 + digits[1], Tail(digits))

\* <i32 as FromStr>::from_str on the digits of a literal without sign
RECURSIVE i32_from_digits(_, _)
i32_from_digits(acc, digits) ==
    IF digits = <<>> THEN [ok |-> TRUE, val |-> acc]
    ELSE IF acc > (I32Max - digits[1]) \div 10 THEN [ok |-> FALSE, err |-> "PosOverflow"]
    ELSE i32_from_digits(acc * 10 + digits[1], Tail(digits))

\* <i32 as FromStr>::from_str on the digits that follow a minus sign: each
\* step is checked_mul(10) followed by checked_sub(digit)
RECURSIVE i32_from_neg_digits(_, _)
i32_from_neg_digits(acc, digits) ==
    IF digits = <<>> THEN [ok |-> TRUE, val |-> acc]
    ELSE IF acc < (I32Min \div 10) + 1 THEN [ok |-> FALSE, err |-> "NegOverflow"]
    ELSE IF acc * 10 < I32Min + digits[1] THEN [ok |-> FALSE, err |-> "NegOverflow"]
    ELSE i32_from_neg_digits(acc * 10 - digits[1], Tail(digits))

\* base10_parse::<u8> that keeps the low eight bits of a literal too large
base10_parse_u8_Wrapping(int) ==
    IF int.neg THEN [ok |-> FALSE, err |-> "InvalidDigit"]
    ELSE LET r == i32_from_digits(0, int.digits)
         IN  IF r.ok THEN [ok |-> TRUE, val |-> r.val % 256] ELSE r

\* syn::LitInt::base10_parse::<u8>(): base10_digits().parse()
base10_parse_u8(int) ==
    IF int.neg THEN [ok |-> FALSE, err |-> "InvalidDigit"]
    ELSE u8_from_digits(0, int.digits)

\* syn::LitInt::base10_parse::<i32>()
base10_parse_i32(int) ==
    IF int.neg THEN i32_from_neg_digits(0, int.digits)
    ELSE i32_from_digits(0, int.digits)

\* the base-10 digits of a number that is not negative
RECURSIVE DigitsOf(_)
DigitsOf(n) == IF n < 10 THEN <<n>> ELSE DigitsOf(n \div 10) \o <<n % 10>>

\* the base-10 digits of a negative number
RECURSIVE DigitsOfNeg(_)
DigitsOfNeg(n) ==
    IF n > 0 - 10 THEN <<0 - n>>
    ELSE LET d == (10 - (n % 10)) % 10
         IN  DigitsOfNeg((n + d) \div 10) \o <<d>>

\* quote's ToTokens for u8: proc_macro2::Literal::u8_suffixed(n)
quote_u8(n) == [neg |-> FALSE, digits |-> DigitsOf(n), suffix |-> "u8"]

\* an i32 literal without its sign
quote_i32_Unsigned(n) ==
    [neg |-> FALSE, digits |-> IF n < 0 THEN DigitsOfNeg(n) ELSE DigitsOf(n),
     suffix |-> "i32"]

\* quote's ToTokens for i32: proc_macro2::Literal::i32_suffixed(n)
quote_i32(n) ==
    IF n < 0 THEN [neg |-> TRUE, digits |-> DigitsOfNeg(n), suffix |-> "i32"]
    ELSE [neg |-> FALSE, digits |-> DigitsOf(n), suffix |-> "i32"]

\* the token streams parse_codec returns: a struct expression of a codec of
\* ::include_assets::do_not_use_this_directly::codec and the path of its type
StructExpr(name, fields) == [path |-> name, fields |-> fields]
TypeExpr(name) == [path |-> name]

\* what parse_codec returns: the boxed codec, its expression and its type
Parsed(c, expr, type_expr) ==
    [ok |-> TRUE, codec |-> c, expr |-> expr, type_expr |-> type_expr]

Panic(msg) == [ok |-> FALSE, kind |-> "panic", msg |-> msg]

\* available[0] of parse_codec: the first codec that is compiled in
DefaultCompression(features) ==
    IF "zstd" \in features THEN "zstd"
    ELSE IF "lz4" \in features THEN "lz4"
    ELSE IF "deflate" \in features THEN "deflate"
    ELSE "uncompressed"

\* parse_codec(compression, level) of a build with the given features
parse_codec(compression, level, features) ==
    IF compression.some /\ compression.kind # "Str"
    THEN Panic("invalid compression option (expected a string literal)")
    ELSE
    LET compression_string ==
            IF compression.some THEN compression.value
            ELSE DefaultCompression(features)
    IN  IF compression_string = "uncompressed"
        THEN IF level.some
             THEN Panic("compression 'uncompressed' does not have levels")
             ELSE Parsed(Uncompressed, StructExpr("Uncompressed", <<>>),
                         TypeExpr("Uncompressed"))
        ELSE IF compression_string = "lz4" /\ "lz4" \in features
        THEN IF level.some
             THEN Panic("compression 'lz4' does not (currently) support levels")
             ELSE Parsed(Lz4, StructExpr("Lz4", <<>>), TypeExpr("Lz4"))
        ELSE IF compression_string = "deflate" /\ "deflate" \in features
        THEN IF ~level.some
             THEN Parsed(Deflate(2),
                         StructExpr("Deflate", <<[name |-> "level", value |-> quote_u8(2)]>>),
                         TypeExpr("Deflate"))
             ELSE IF level.kind = "Int"
             THEN LET n == base10_parse_u8(level)
                  IN  IF n.ok
                      THEN Parsed(Deflate(n.val),
                                  StructExpr("Deflate",
                                             <<[name |-> "level", value |-> quote_u8(n.val)]>>),
                                  TypeExpr("Deflate"))
                      ELSE [ok |-> FALSE, kind |-> "panic",
                            msg |-> "Invalid compression level {}", int |-> level]
             ELSE Panic("Invalid compression level")
        ELSE IF compression_string = "zstd" /\ "zstd" \in features
        THEN IF ~level.some
             THEN Parsed(Zstd(5),
                         StructExpr("Zstd", <<[name |-> "level", value |-> quote_i32(5)]>>),
                         TypeExpr("Zstd"))
             ELSE IF level.kind = "Int"
             THEN LET n == base10_parse_i32(level)
                  IN  IF n.ok
                      THEN Parsed(Zstd(n.val),
                                  StructExpr("Zstd",
                                             <<[name |-> "level", value |-> quote_i32(n.val)]>>),
                                  TypeExpr("Zstd"))
                      ELSE [ok |-> FALSE, kind |-> "panic",
                            msg |-> "Invalid compression level {}", int |-> level]
             ELSE Panic("Invalid compression level")
        ELSE [ok |-> FALSE, kind |-> "panic",
              msg |-> "invalid/unsupported compression '{s}'", s |-> compression_string]

\* the value of a suffixed integer literal of the generated code
LitValue(lit) ==
    IF lit.suffix = "u8" THEN base10_parse_u8(lit).val
    ELSE base10_parse_i32(lit).val

\* the codec that the struct expression of the generated package denotes
Eval(expr) ==
    IF expr.path = "Uncompressed" THEN Uncompressed
    ELSE IF expr.path = "Lz4" THEN Lz4
    ELSE IF expr.path = "Deflate" THEN Deflate(LitValue(expr.fields[1].value))
    ELSE Zstd(LitValue(expr.fields[1].value))

\* the manifests of the builds with options: at most two assets "a" and "b"
OptManifests ==
    {m \in PkgManifests :
       /\ Len(m) <= 2
       /\ \A i \in 1..Len(m) : m[i].name \in {<<97>>, <<98>>}}

InitOpts ==
    /\ pc = "start"
    /\ codec = None
    /\ manifest \in OptManifests
    /\ manifest2 = <<>>
    /\ tree = None
    /\ enumOrder = <<>>
    /\ links = [some |-> FALSE]
    /\ presented = None
    /\ pkg = None
    /\ pkg2 = None
    /\ archive = None
    /\ files = <<>>
    /\ table = None
    /\ bundle = None
    /\ tampered = "no"
    /\ query = None
    /\ answer = None

\* parse_codec(compression, level) in a build with the given features
ParseCodec(compression, level, features) ==
    /\ pc = "start"
    /\ query = None
    /\ query' = [op |-> "parse_codec", compression |-> compression,
                 level |-> level, features |-> features]
    /\ answer' = parse_codec(compression, level, features)
    /\ UNCHANGED <<pc, codec, tree, enumOrder, links, presented, manifest, manifest2,
                   pkg, pkg2, archive, files, table, bundle, tampered>>

\* include_dir!(path, compression = .., level = ..): parse_codec, then
\* prepare_named_archive with the codec it returned; answer keeps what
\* parse_codec returned, whose expr becomes the codec field of the package
IncludeDirWith(compression, level, features) ==
    /\ pc = "start"
    /\ query = None
    /\ LET r == parse_codec(compression, level, features)
       IN  /\ query' = [op |-> "include_dir", compression |-> compression,
                        level |-> level, features |-> features]
           /\ answer' = r
           /\ codec' = IF r.ok THEN r.codec ELSE codec
           /\ pkg' = IF r.ok THEN prepare_named_archive(r.codec, manifest) ELSE r
    /\ pc' = IF pkg'.ok THEN "built" ELSE "build_failed"
    /\ UNCHANGED <<tree, enumOrder, links, presented, manifest, manifest2, pkg2, archive,
                   files, table, bundle, tampered>>

\* the package of the generated code: its codec field is the value of the
\* expression parse_codec returned
EmittedPackage == CompressedNamedArchive(Eval(answer.expr), pkg)

\* NamedArchive::load of the package of the generated code
LoadEmitted ==
    /\ pc = "built"
    /\ \E r \in NamedArchive_load(EmittedPackage) :
         /\ archive' = r
         /\ pc' = IF r.ok THEN "loaded" ELSE "load_failed"
    /\ UNCHANGED <<codec, tree, enumOrder, links, presented, manifest, manifest2, pkg, pkg2,
                   files, table, bundle, tampered, query, answer>>

NextOpts ==
    \/ \E compression \in CompressionOptions, level \in LevelOptions, features \in Features :
         ParseCodec(compression, level, features)
    \/ \E compression \in CompressionOptions, level \in LevelOptions, features \in Features :
         IncludeDirWith(compression, level, features)
    \/ LoadEmitted

SpecOpts == InitOpts /\ [][NextOpts]_vars

---------------------------------------------------------------------------
(* Properties of the codec options (checked under SpecOpts) *)

\* parse_codec was applied, by itself or within include_dir
OptionsParsed == query # None /\ query.op \in {"parse_codec", "include_dir"}

\* a <= b for digit strings without leading zeros
RECURSIVE LexLeq(_, _)
LexLeq(a, b) ==
    IF a = <<>> THEN TRUE
    ELSE IF a[1] # b[1] THEN a[1] < b[1]
    ELSE LexLeq(Tail(a), Tail(b))

DigitsLeq(a, b) == Len(a) < Len(b) \/ (Len(a) = Len(b) /\ LexLeq(a, b))

\* the integer literal is within the range of u8 / of i32
FitsU8(int) == ~int.neg /\ DigitsLeq(int.digits, <<2, 5, 5>>)
FitsI32(int) ==
    IF int.neg THEN DigitsLeq(int.digits, <<2, 1, 4, 7, 4, 8, 3, 6, 4, 8>>)
    ELSE DigitsLeq(int.digits, <<2, 1, 4, 7, 4, 8, 3, 6, 4, 7>>)

\* the number n is the one the integer literal writes
GivenAs(int, n) ==
    IF n < 0 THEN int.neg /\ DigitsOfNeg(n) = int.digits
    ELSE DigitsOf(n) = int.digits /\ (int.neg => n = 0)

IsStr(lit, s) == lit.some /\ lit.kind = "Str" /\ lit.value = s
IsInt(lit) == lit.some /\ lit.kind = "Int"

\* the compression the options select: the one named, or the first codec
\* that is compiled in
Selected(q) ==
    IF q.compression.some THEN q.compression.value ELSE DefaultCompression(q.features)

\* the codec of the name is compiled in
Supported(s, features) == s = "uncompressed" \/ (s \in {"lz4", "deflate", "zstd"} /\ s \in features)

Rejected == ~answer.ok /\ answer.kind = "panic"

\* the statement of C21 as it stands, for builds in which the named codec
\* is compiled in: every integer level given with "deflate" or "zstd" is
\* accepted and used as given
C21_AnyIntegerLevelUsed ==
    (OptionsParsed /\ query.compression.some /\ query.compression.kind = "Str"
       /\ query.compression.value \in {"deflate", "zstd"}
       /\ query.compression.value \in query.features
       /\ IsInt(query.level)) =>
        /\ answer.ok
        /\ answer.codec.alg = query.compression.value
        /\ GivenAs(query.level, answer.codec.level)

\* C21: codec option validation.  A compression value that is no string
\* literal is rejected.  Otherwise the compression is the one named or, when
\* the option is absent, the first of zstd, lz4, deflate that is compiled in,
\* else uncompressed.  A name that is none of the four, or that of a codec
\* that is not compiled in, is rejected.  With uncompressed and lz4 any
\* level option is rejected and without one the codec is accepted.  With
\* deflate an absent level is 2 and with zstd it is 5; an integer level that
\* fits the level type (u8 for deflate, i32 for zstd) is used as given, with
\* no further range check; an integer level that does not fit and a level
\* that is no integer literal are rejected.
C21_OptionValidation ==
    OptionsParsed =>
        LET c == query.compression
            l == query.level
            s == Selected(query)
        IN  IF c.some /\ c.kind # "Str" THEN Rejected
            ELSE IF ~Supported(s, query.features)
            THEN Rejected /\ answer.s = s
            ELSE IF s \in {"uncompressed", "lz4"}
            THEN IF l.some THEN Rejected
                 ELSE answer.ok /\ answer.codec = [alg |-> s]
            ELSE IF ~l.some
            THEN /\ answer.ok
                 /\ answer.codec = [alg |-> s, level |-> IF s = "deflate" THEN 2 ELSE 5]
            ELSE IF ~IsInt(l) THEN Rejected
            ELSE IF (s = "deflate" /\ FitsU8(l)) \/ (s = "zstd" /\ FitsI32(l))
            THEN /\ answer.ok
                 /\ answer.codec.alg = s
                 /\ GivenAs(l, answer.codec.level)
            ELSE Rejected /\ answer.int = l

\* deflate with level 256, which is an integer but no u8, is rejected
C21_Witness ==
    /\ OptionsParsed
    /\ query.op = "parse_codec"
    /\ IsStr(query.compression, "deflate")
    /\ "deflate" \in query.features
    /\ query.level = LitInt(FALSE, <<2, 5, 6>>)
    /\ Rejected
    /\ answer.msg = "Invalid compression level {}"

\* zstd with level -7 is accepted with that level, deflate with 255 too
C21_LevelUsedCase ==
    /\ OptionsParsed
    /\ IsStr(query.compression, "zstd")
    /\ query.level = LitInt(TRUE, <<7>>)
    /\ answer.ok
    /\ answer.codec = Zstd(0 - 7)

C21_LargestU8Case ==
    /\ OptionsParsed
    /\ IsStr(query.compression, "deflate")
    /\ query.level = LitInt(FALSE, <<2, 5, 5>>)
    /\ answer.ok
    /\ answer.codec = Deflate(255)

\* zstd with level 2^31 is rejected, with -2^31 accepted
C21_I32Case ==
    /\ OptionsParsed
    /\ IsStr(query.compression, "zstd")
    /\ query.level = LitInt(FALSE, <<2, 1, 4, 7, 4, 8, 3, 6, 4, 8>>)
    /\ Rejected

C21_I32MinCase ==
    /\ OptionsParsed
    /\ IsStr(query.compression, "zstd")
    /\ query.level = LitInt(TRUE, <<2, 1, 4, 7, 4, 8, 3, 6, 4, 8>>)
    /\ answer.ok
    /\ answer.codec.level = I32Min

\* absent levels are defaulted
C21_DefaultCase ==
    /\ OptionsParsed
    /\ IsStr(query.compression, "deflate")
    /\ ~query.level.some
    /\ answer.ok
    /\ answer.codec = Deflate(2)

\* a level with lz4 is rejected, as is lz4 when it is not compiled in
C21_Lz4LevelCase ==
    /\ OptionsParsed
    /\ IsStr(query.compression, "lz4")
    /\ "lz4" \in query.features
    /\ IsInt(query.level)
    /\ Rejected
    /\ answer.msg = "compression 'lz4' does not (currently) support levels"

C21_NotCompiledInCase ==
    /\ OptionsParsed
    /\ IsStr(query.compression, "zstd")
    /\ "zstd" \notin query.features
    /\ Rejected
    /\ answer.msg = "invalid/unsupported compression '{s}'"

\* a compression value that is no string, a level that is no integer
C21_NotStringCase ==
    /\ OptionsParsed
    /\ query.compression = LitBool
    /\ Rejected

C21_NotIntegerCase ==
    /\ OptionsParsed
    /\ IsStr(query.compression, "zstd")
    /\ "zstd" \in query.features
    /\ query.level = LitStr("9")
    /\ Rejected
    /\ answer.msg = "Invalid compression level"


\* the uncompressed contents of the three streams of the manifest's package
PlainData == Concat([i \in 1..Len(manifest) |-> manifest[i].data])
PlainNames == JoinNames([i \in 1..Len(manifest) |-> manifest[i].name])
PlainSizes == Concat([i \in 1..Len(manifest) |-> to_le_bytes(Len(manifest[i].data))])

\* include_dir accepted its options and built the package
BuiltWithOptions ==
    /\ pc \in {"built", "loaded", "load_failed"}
    /\ query # None
    /\ query.op = "include_dir"

\* C22: the codec recorded in the package.  For every accepted
\* compression/level option the expression that parse_codec returns for the
\* generated code denotes the codec instance it returns for the builder: the
\* same algorithm with the same level, and its type expression names the
\* type of that expression.  The three streams of the built package (data,
\* names, sizes) are what that one codec compresses their contents to, and
\* the codec field of the emitted package, with which the loader
\* decompresses all three, is that codec and gives their contents back.
C22_CodecRecorded ==
    /\ (OptionsParsed /\ answer.ok) =>
         /\ Eval(answer.expr) = answer.codec
         /\ Eval(answer.expr).alg = answer.codec.alg
         /\ answer.codec.alg \in {"deflate", "zstd"} =>
              Eval(answer.expr).level = answer.codec.level
         /\ answer.type_expr.path = answer.expr.path
    /\ BuiltWithOptions =>
         LET c == answer.codec
             e == EmittedPackage
         IN  /\ answer.ok
             /\ codec = c
             /\ e.codec = c
             /\ e.data = compress(c, PlainData).val
             /\ e.compressed_names = compress(c, PlainNames).val
             /\ e.compressed_sizes = compress(c, PlainSizes).val
             /\ decompress_with_length(e.codec, e.data, e.uncompressed_data_size)
                  = {[ok |-> TRUE, val |-> PlainData]}
             /\ decompress_with_length(e.codec, e.compressed_names,
                                       e.uncompressed_names_size)
                  = {[ok |-> TRUE, val |-> PlainNames]}
             /\ decompress_with_length(e.codec, e.compressed_sizes,
                                       4 * Len(e.checksums))
                  = {[ok |-> TRUE, val |-> PlainSizes]}
             /\ c.alg \in {"deflate", "zstd"} =>
                  \A stream \in {e.data, e.compressed_names, e.compressed_sizes} :
                      /\ IsFrame(IF c.alg = "deflate" THEN DeflateMark ELSE ZstdMark, stream)
                      /\ stream[2] = 256 + (c.level % 256)
             /\ pc = "loaded" =>
                  \A i \in 1..Len(manifest) :
                      NamedArchive_get(archive, manifest[i].name)
                        = [some |-> TRUE, val |-> manifest[i].data]
             /\ pc = "load_failed" => manifest = <<>>

\* a package of two assets was built with zstd at level -7 and loaded: the
\* expression of the package is Zstd{ level: -7i32 }
C22_Witness ==
    /\ BuiltWithOptions
    /\ pc = "loaded"
    /\ Len(manifest) = 2
    /\ IsStr(query.compression, "zstd")
    /\ query.level = LitInt(TRUE, <<7>>)
    /\ codec = Zstd(0 - 7)
    /\ answer.expr = StructExpr("Zstd",
                        <<[name |-> "level",
                           value |-> [neg |-> TRUE, digits |-> <<7>>, suffix |-> "i32"]]>>)
    /\ EmittedPackage.codec = Zstd(0 - 7)

\* a package built with deflate at the default level, and one with the
\* default compression of a build with the lz4 feature only
C22_DeflateCase ==
    /\ BuiltWithOptions
    /\ pc = "loaded"
    /\ IsStr(query.compression, "deflate")
    /\ ~query.level.some
    /\ EmittedPackage.codec = Deflate(2)
    /\ answer.expr.fields[1].value = [neg |-> FALSE, digits |-> <<2>>, suffix |-> "u8"]

C22_DefaultCompressionCase ==
    /\ BuiltWithOptions
    /\ pc = "loaded"
    /\ ~query.compression.some
    /\ query.features = {"lz4"}
    /\ EmittedPackage.codec = Lz4
    /\ manifest # <<>>

\* a level of more than one digit is written out and read back
C22_DigitsCase ==
    /\ BuiltWithOptions
    /\ IsStr(query.compression, "deflate")
    /\ answer.expr.fields[1].value = [neg |-> FALSE, digits |-> <<2, 5, 5>>, suffix |-> "u8"]
    /\ EmittedPackage.codec = Deflate(255)

====
